---- MODULE Spec2Model ----
(***************************************************************************)
(* GitInsight: the job pipeline (API producer, repo-processing worker,     *)
(* AI-summarization worker, result consumer) and the job record store.     *)
(*                                                                         *)
(* Python values are modelled as follows: None is the string None below;   *)
(* a dict read with .get(key) is a record whose absent keys hold None; an  *)
(* absent or falsy analysis_id is 0; a member of the str-enum              *)
(* AnalysisStatus is its value string.                                     *)
(***************************************************************************)
EXTENDS Integers, Sequences, FiniteSets, TLC

\* ------------------------------------------------------------------ bounds

\* Number of analysis requests that get as far as creating a record.
MaxRecords == 1

\* Number of jobs put on the worker queues with the arguments the task
\* functions take (deliveries and redeliveries of a task).
MaxDeliveries == 2

\* Number of files of the largest directory trees handed to the content filter.
MaxTreeFiles == 200

\* ------------------------------------------------------- values and inputs

None == "<None>"

NoId == 0

\* class AnalysisStatus(str, enum.Enum)
QUEUED == "queued"

PROCESSING_REPO == "processing_repo"

PROCESSING_AI == "processing_ai"

COMPLETED == "completed"

FAILED == "failed"

AnalysisStatusValues == {QUEUED, PROCESSING_REPO, PROCESSING_AI, COMPLETED, FAILED}

ValueError == "<ValueError>"

\* AnalysisStatus(status_str): the enum's lookup by value; any string that is
\* not the value of a member raises ValueError.
AnalysisStatus_by_name(status_str) ==
    IF status_str = "COMPLETED" THEN COMPLETED
    ELSE IF status_str = "FAILED" THEN FAILED
    ELSE ValueError

AnalysisStatus(status_str) ==
    IF status_str \in AnalysisStatusValues THEN status_str ELSE ValueError

Terminal == {COMPLETED, FAILED}

\* settings.RESULT_QUEUE / REPO_PROCESSING_QUEUE / AI_ANALYSIS_QUEUE
RESULT_QUEUE == "gitinsight_results"

\* The request body of POST /analyze/repo (AnalyzeRepoRequest) after validation.
RepositoryUrls == {"https://github.com/acme/demo"}

AnalysisParameters == {[lang |-> "en", size |-> "medium", technicality |-> "technical"]}

\* An absent or empty analysis_parameters dict.
NoParameters == [lang |-> None, size |-> None, technicality |-> None]

\* request.session["user"]["id"] as a string, None for a guest.
UserIds == {None, "u1"}

\* request.session["github_token"], None for a guest.
GithubTokens == {None, "tok"}

\* request.session as the routes leave it: auth_github sets "user" and
\* "github_token" together, /guest and /logout pop both.
Sessions ==
    {[user |-> None, github_token |-> None],
     [user |-> "u1", github_token |-> "tok"]}

Ids == 1..MaxRecords

\* The status strings a result payload may carry: the four of the consumer's
\* docstring, the three the AI worker writes, and a missing key.
PayloadStatusStrings ==
    {PROCESSING_REPO, PROCESSING_AI, COMPLETED, FAILED,
     "PROCESSING", "COMPLETED", "FAILED", None}

SummaryValues == {None, "X", "Y"}

ErrorValues == {None, "E"}

\* The analysis_id a payload may carry: none, or an id the store hands out.
PayloadIds == {NoId} \cup Ids

\* The payload dicts handed to process_analysis_result, as .get reads them.
ResultPayloads ==
    [analysis_id : PayloadIds,
     status : PayloadStatusStrings,
     summary_content : SummaryValues,
     error_message : ErrorValues]

\* ------------------------------------------------------------------- state

VARIABLES
    store,          \* table analysis_history: id -> row, for the rows that exist
    next_id,        \* the table's autoincrement counter
    request,        \* the analyze_repo_endpoint call in progress, or its outcome
    repo_q,         \* RQ queue settings.REPO_PROCESSING_QUEUE
    ai_q,           \* RQ queue settings.AI_ANALYSIS_QUEUE
    result_q,       \* RQ queue settings.RESULT_QUEUE
    failed_jobs,    \* RQ's registry of the jobs whose task function raised
    repo_run,       \* the process_repo_task call in progress
    ai_run,         \* the analyze_text_task call in progress
    deliveries,     \* number of well-formed task jobs delivered so far
    temp_dirs,      \* the directories that exist under CLONE_TEMP_DIR_BASE
    status_response, \* the last call of get_analysis_status_endpoint and its reply
    fetch,          \* the clone_repo call in progress, or its outcome
    repo_parked,    \* the process_repo_task call of the repo worker not scheduled now
    walk,           \* the parse_repo_content call in progress, or its outcome
    fault,          \* history: a broker, store, clone or model failure happened
    last_terminal   \* history: per row, status of the last terminal message applied

vars == <<store, next_id, request, repo_q, ai_q, result_q, failed_jobs,
          repo_run, ai_run, deliveries, temp_dirs, status_response, fetch,
          repo_parked, walk, fault, last_terminal>>

\* What the producer and the result consumer leave alone.
workerVars == <<ai_q, result_q, failed_jobs, repo_run, ai_run, deliveries, temp_dirs,
               status_response, fetch, repo_parked, walk>>

\* ------------------------------------------------------------ record store

\* datetime.now(timezone.utc) as create_analysis_history and as
\* update_analysis_status read it: an instant is told from another by the call
\* that read the clock.
now_at_create == "now() at create_analysis_history"
now_at_update == "now() at update_analysis_status"

\* AnalysisHistory(...) as create_analysis_history builds it.
NewAnalysisHistory(repository_url, parameters_used, user_github_id) ==
    [user_github_id |-> user_github_id,
     repository_url |-> repository_url,
     parameters_used |-> parameters_used,
     status |-> QUEUED,
     summary_content |-> None,
     error_message |-> None,
     timestamp |-> now_at_create,
     updated_at |-> now_at_create]

\* db.add(new_analysis); db.commit(): the row gets the next autoincrement id.
create_analysis_history(db, id, repository_url, parameters_used, user_github_id) ==
    db @@ (id :> NewAnalysisHistory(repository_url, parameters_used, user_github_id))

\* db.delete(history_entry); db.commit()
delete_analysis_history(db, id) ==
    [i \in DOMAIN db \ {id} |-> db[i]]

\* A plausible slip: the error message of the row is kept unless overwritten.
update_analysis_status_keeps_error(db, analysis_id, status, summary_content, error_message) ==
    IF analysis_id \in DOMAIN db
    THEN [db EXCEPT ![analysis_id] =
            [@ EXCEPT !.status = status,
                      !.summary_content =
                          IF status = COMPLETED THEN summary_content ELSE @,
                      !.error_message =
                          IF status = FAILED THEN error_message ELSE @,
                      !.updated_at = now_at_update]]
    ELSE db

\* A plausible slip: the COMPLETED test reads the row's status column instead
\* of the new status.
update_analysis_status_tests_column(db, analysis_id, status, summary_content, error_message) ==
    IF analysis_id \in DOMAIN db
    THEN [db EXCEPT ![analysis_id] =
            [@ EXCEPT !.status = status,
                      !.summary_content =
                          IF db[analysis_id].status = COMPLETED
                          THEN summary_content ELSE @,
                      !.error_message =
                          IF status = FAILED THEN error_message ELSE None,
                      !.updated_at = now_at_update]]
    ELSE db

\* UPDATE analysis_history SET ... WHERE id = analysis_id RETURNING *
update_analysis_status_upsert(db, analysis_id, status, summary_content, error_message) ==
    [id \in DOMAIN db \cup {analysis_id} |->
        IF id = analysis_id
        THEN [repository_url |-> None, parameters_used |-> NoParameters,
              user_github_id |-> None, status |-> status,
              summary_content |-> IF status = COMPLETED THEN summary_content ELSE None,
              error_message |-> IF status = FAILED THEN error_message ELSE None,
              timestamp |-> now_at_update, updated_at |-> now_at_update]
        ELSE db[id]]

\* A plausible slip: updated_at is left to the column's onupdate default,
\* which this statement does not trigger.
update_analysis_status_keeps_updated_at(db, analysis_id, status, summary_content, error_message) ==
    IF analysis_id \in DOMAIN db
    THEN [db EXCEPT ![analysis_id] =
            [@ EXCEPT !.status = status,
                      !.summary_content =
                          IF status = COMPLETED THEN summary_content ELSE @,
                      !.error_message =
                          IF status = FAILED THEN error_message ELSE None]]
    ELSE db

\* A plausible slip: the statement also writes the owner column, with the
\* value a message does not carry.
update_analysis_status_writes_owner(db, analysis_id, status, summary_content, error_message) ==
    IF analysis_id \in DOMAIN db
    THEN [db EXCEPT ![analysis_id] =
            [@ EXCEPT !.status = status,
                      !.user_github_id = None,
                      !.summary_content =
                          IF status = COMPLETED THEN summary_content ELSE @,
                      !.error_message =
                          IF status = FAILED THEN error_message ELSE None,
                      !.updated_at = now_at_update]]
    ELSE db

update_analysis_status(db, analysis_id, status, summary_content, error_message) ==
    IF analysis_id \in DOMAIN db
    THEN [db EXCEPT ![analysis_id] =
            [@ EXCEPT !.status = status,
                      !.summary_content =
                          IF status = COMPLETED THEN summary_content ELSE @,
                      !.error_message =
                          IF status = FAILED THEN error_message ELSE None,
                      !.updated_at = now_at_update]]
    ELSE db

\* ---------------------------------------------------------- result consumer

\* The payload passes the consumer's two validations.
ValidPayload(payload) ==
    /\ payload.analysis_id # NoId
    /\ payload.status # None
    /\ AnalysisStatus(payload.status) # ValueError

\* process_analysis_result(payload): the store after the call.
process_analysis_result(db, payload) ==
    IF payload.analysis_id = NoId \/ payload.status = None
    THEN db
    ELSE IF AnalysisStatus(payload.status) = ValueError
    THEN db
    ELSE update_analysis_status(db, payload.analysis_id,
                                AnalysisStatus(payload.status),
                                payload.summary_content, payload.error_message)

\* The history variable after the consumer processed payload.
RecordTerminal(db, hist, payload) ==
    IF /\ ValidPayload(payload)
       /\ payload.analysis_id \in DOMAIN db
       /\ payload.status \in Terminal
    THEN [hist EXCEPT ![payload.analysis_id] = payload.status]
    ELSE hist

\* The store as a run of the consumer meets it: the session factory is
\* configured and the UPDATE executes (ok), the UPDATE or its commit raises
\* and is rolled back (error), or AsyncSessionLocal is None (not_configured).
DbStates == {"ok", "error", "not_configured"}

\* The exception process_analysis_result raises, None when it returns: the two
\* validations return before the session factory is tested, and
\* update_analysis_status catches what the store raises.
process_analysis_result_raises(payload, db_state) ==
    IF payload.analysis_id = NoId \/ payload.status = None
    THEN None
    ELSE IF AnalysisStatus(payload.status) = ValueError
    THEN None
    ELSE IF db_state = "not_configured"
    THEN "ConnectionError"
    ELSE None

\* The store after process_analysis_result(payload) with the store in
\* db_state: the update is applied only when the UPDATE executes.
process_analysis_result_on(db_state, db, payload) ==
    IF db_state = "ok" THEN process_analysis_result(db, payload) ELSE db

\* The path under which both workers enqueue results: process_analysis_result.
PROCESS_ANALYSIS_RESULT == "api_service.tasks.result_consumer.process_analysis_result"

\* The failed-job registry after the run: a run that raised is entered.
FailedResultJobs(failed, payload, db_state) ==
    IF process_analysis_result_raises(payload, db_state) = None
    THEN failed
    ELSE failed \cup {[func |-> PROCESS_ANALYSIS_RESULT,
                       error |-> process_analysis_result_raises(payload, db_state)]}

\* The RQ worker of the result queue runs process_analysis_result on a payload.
ProcessAnalysisResult(payload, db_state) ==
    /\ store' = process_analysis_result_on(db_state, store, payload)
    /\ last_terminal' = IF db_state = "ok"
                        THEN RecordTerminal(store, last_terminal, payload)
                        ELSE last_terminal
    /\ failed_jobs' = FailedResultJobs(failed_jobs, payload, db_state)
    /\ fault' = (fault \/ db_state # "ok")
    /\ UNCHANGED <<walk, fetch, repo_parked, status_response, next_id, request, repo_q, ai_q, result_q, repo_run, ai_run,
                   deliveries, temp_dirs>>

\* ----------------------------------------------------------------- producer

Idle == [pc |-> "idle", analysis_id |-> NoId, repository_url |-> None,
         token |-> None, analysis_parameters |-> NoParameters, response |-> None]

\* The dotted path the producer enqueues: process_repo_task of the repo worker.
PROCESS_REPO_TASK == "repo_processor_service.tasks.process_repo_task.process_repo_task"

\* q.enqueue(func, *args): an RQ job is a task function path and the
\* positional arguments the worker will call it with.
Job(func, args) == [func |-> func, args |-> args]

\* task_payload of analyze_repo_endpoint, enqueued as the job's one argument.
RepoTaskJob(analysis_id, repository_url, token, analysis_parameters) ==
    Job(PROCESS_REPO_TASK,
        << [analysis_id |-> analysis_id,
            repository_url |-> repository_url,
            github_token |-> token,
            analysis_parameters |-> analysis_parameters,
            result_queue_name |-> RESULT_QUEUE] >>)

\* analyze_repo_endpoint up to the creation of the record: the availability
\* checks, then create_analysis_history, which returns None when db.commit()
\* raises (no row) and also when db.refresh() raises after the commit (the
\* row is in the table).
analyze_repo_endpoint_create(url, params, user, token, redis_ok, db_ok, commit_ok, refresh_ok) ==
    /\ request.pc = "idle"
    /\ next_id <= MaxRecords
    /\ IF ~redis_ok
       THEN /\ request' = [Idle EXCEPT !.response = "503 Analysis service temporarily unavailable."]
            /\ UNCHANGED <<store, next_id, last_terminal>>
       ELSE IF ~db_ok
       THEN /\ request' = [Idle EXCEPT !.response = "503 Database service unavailable, cannot track analysis."]
            /\ UNCHANGED <<store, next_id, last_terminal>>
       ELSE IF ~commit_ok
       THEN /\ request' = [Idle EXCEPT !.response = "500 Failed to initiate analysis record."]
            /\ UNCHANGED <<store, next_id, last_terminal>>
       ELSE IF ~refresh_ok
       THEN /\ store' = create_analysis_history(store, next_id, url, params, user)
            /\ last_terminal' = last_terminal @@ (next_id :> None)
            /\ next_id' = next_id + 1
            /\ request' = [Idle EXCEPT !.response = "500 Failed to initiate analysis record."]
       ELSE /\ store' = create_analysis_history(store, next_id, url, params, user)
            /\ last_terminal' = last_terminal @@ (next_id :> None)
            /\ next_id' = next_id + 1
            /\ request' = [pc |-> "enqueue", analysis_id |-> next_id,
                           repository_url |-> url, token |-> token,
                           analysis_parameters |-> params, response |-> None]
    /\ fault' = (fault \/ ~redis_ok \/ ~db_ok \/ ~commit_ok \/ ~refresh_ok)
    /\ UNCHANGED <<repo_q, workerVars>>

\* A plausible slip: the failed enqueue is reported but the record is kept.
rollback_skipped(db, id) == db

\* A plausible slip: the alternative the except branch's comment names, the
\* record is marked FAILED instead of being deleted.
rollback_marks_failed(db, id) ==
    [db EXCEPT ![id] = [@ EXCEPT !.status = FAILED,
                                 !.error_message = "Failed to queue analysis task."]]

\* The rollback of analyze_repo_endpoint after a failed enqueue.
rollback_history_entry(db, id) == delete_analysis_history(db, id)

\* analyze_repo_endpoint from the enqueue on: the job is enqueued and 202 is
\* returned, or the enqueue raises and the except branch runs db.delete and
\* db.commit: when they succeed the record is gone and 500 "Failed to queue"
\* is returned; when one of them raises, the exception leaves the endpoint
\* (the session is rolled back, the record stays) and the framework answers
\* 500 Internal Server Error.
analyze_repo_endpoint_enqueue(enqueue_ok, delete_ok) ==
    /\ request.pc = "enqueue"
    /\ IF enqueue_ok
       THEN /\ repo_q' = Append(repo_q, RepoTaskJob(request.analysis_id,
                                                    request.repository_url,
                                                    request.token,
                                                    request.analysis_parameters))
            /\ request' = [request EXCEPT !.pc = "idle", !.response = "202"]
            /\ UNCHANGED <<store, last_terminal>>
       ELSE IF delete_ok
       THEN /\ store' = rollback_history_entry(store, request.analysis_id)
            /\ last_terminal' = [i \in DOMAIN store' |-> last_terminal[i]]
            /\ request' = [request EXCEPT !.pc = "idle",
                                          !.response = "500 Failed to queue analysis task."]
            /\ UNCHANGED repo_q
       ELSE /\ request' = [request EXCEPT !.pc = "idle",
                                          !.response = "500 Internal Server Error"]
            /\ UNCHANGED <<store, last_terminal, repo_q>>
    /\ fault' = (fault \/ ~enqueue_ok)
    /\ UNCHANGED <<next_id, workerVars>>

\* --------------------------------------------------------- status endpoint

\* The analysis_id of the path /analysis/status/{analysis_id}: the ids the store
\* hands out and one it never hands out.
StatusIds == 1..(MaxRecords + 1)

\* str(user["id"]) of the session's user, None for a guest.
Callers == {None, "u1", "u2"}

\* What first() returns when the SELECT matches no row.
NoAnalysis ==
    [id |-> NoId, user_github_id |-> None, repository_url |-> None,
     parameters_used |-> NoParameters, status |-> None,
     summary_content |-> None, error_message |-> None]

\* The AnalysisHistory object of the row analysis_id.
AnalysisRow(db, analysis_id) ==
    [id |-> analysis_id,
     user_github_id |-> db[analysis_id].user_github_id,
     repository_url |-> db[analysis_id].repository_url,
     parameters_used |-> db[analysis_id].parameters_used,
     status |-> db[analysis_id].status,
     summary_content |-> db[analysis_id].summary_content,
     error_message |-> db[analysis_id].error_message]

get_analysis_by_id_for_user_unfiltered(db_ok, db, analysis_id, user_github_id) ==
    IF ~db_ok
    THEN NoAnalysis
    ELSE IF analysis_id \in DOMAIN db
    THEN AnalysisRow(db, analysis_id)
    ELSE NoAnalysis

\* get_analysis_by_id_for_user(db, analysis_id, user_github_id): the row with
\* that id; a truthy user_github_id adds WHERE user_github_id == :owner, which
\* no row with a NULL owner satisfies.
get_analysis_by_id_for_user(db_ok, db, analysis_id, user_github_id) ==
    IF ~db_ok
    THEN NoAnalysis
    ELSE IF analysis_id \notin DOMAIN db
    THEN NoAnalysis
    ELSE IF user_github_id # None /\ user_github_id # ""
    THEN IF db[analysis_id].user_github_id = user_github_id
         THEN AnalysisRow(db, analysis_id)
         ELSE NoAnalysis
    ELSE AnalysisRow(db, analysis_id)

\* No call of the status endpoint has been answered yet.
NoStatusCall ==
    [analysis_id |-> NoId, user_github_id |-> None, status_code |-> 0,
     detail |-> None, body |-> NoAnalysis]

\* The reply of GET /analysis/status/{analysis_id} to the caller user_github_id.
AnalysisStatusResponse(db_ok, db, analysis_id, user_github_id) ==
    IF ~db_ok
    THEN [analysis_id |-> analysis_id, user_github_id |-> user_github_id,
          status_code |-> 503, detail |-> "Database service unavailable.",
          body |-> NoAnalysis]
    ELSE IF get_analysis_by_id_for_user(db_ok, db, analysis_id, user_github_id)
              = NoAnalysis
    THEN [analysis_id |-> analysis_id, user_github_id |-> user_github_id,
          status_code |-> 404,
          detail |-> IF user_github_id # None
                     THEN "Analysis not found or access denied."
                     ELSE "Analysis not found.",
          body |-> NoAnalysis]
    ELSE [analysis_id |-> analysis_id, user_github_id |-> user_github_id,
          status_code |-> 200, detail |-> None,
          body |-> [get_analysis_by_id_for_user(db_ok, db, analysis_id,
                                                user_github_id)
                        EXCEPT !.user_github_id = None]]

\* get_analysis_status_endpoint: a read of the store that changes nothing.
get_analysis_status_endpoint(analysis_id, user_github_id, db_ok) ==
    /\ status_response' =
           AnalysisStatusResponse(db_ok, store, analysis_id, user_github_id)
    /\ UNCHANGED <<store, next_id, request, repo_q, ai_q, result_q, failed_jobs,
                   repo_run, ai_run, deliveries, temp_dirs, fetch, repo_parked,
                   fault, last_terminal, walk>>

\* ------------------------------------------------------------- RQ workers

\* The task function the AI worker's code base defines: analyze_text_task.
ANALYZE_TEXT_TASK == "ai_analyzer_service.tasks.analyze_text_task.analyze_text_task"

\* ai_task_function_path of process_repo_task.
AI_TASK_FUNCTION_PATH == "ai_analyzer_service.tasks.ai_task.analyze_content_task"

\* max_source_files_to_include of parse_repo_content.
MAX_SOURCE_FILES == 150

\* MAX_FILE_SIZE_BYTES: a larger file is skipped, so no file content is longer.
MAX_FILE_SIZE_BYTES == 1048576

\* A cloned working tree as parse_repo_content counts it: the number of files
\* that pass the filters and are named as an important file, the number of the
\* other files that pass them and have a code extension, and the number of
\* characters of each file.
Repos ==
    {[important_files |-> 1, source_files |-> 2, file_chars |-> 100],
     [important_files |-> 200, source_files |-> 151, file_chars |-> MAX_FILE_SIZE_BYTES]}

\* parse_repo_content(temp_clone_dir): parsed_data, a dict of the important
\* files (every one of them) and of the first 150 source files, given by the
\* number of entries and the characters of content it holds.
parse_repo_content(repo) ==
    LET source_files == IF repo.source_files > MAX_SOURCE_FILES
                        THEN MAX_SOURCE_FILES ELSE repo.source_files
    IN [important |-> repo.important_files,
        source_files |-> source_files,
        chars |-> (repo.important_files + source_files) * repo.file_chars]

\* An absent parsed_repo_content.
NoContent == [important |-> 0, source_files |-> 0, chars |-> 0]

\* The texts an AI task may carry; the empty one is falsy.
ExtractedTexts == {"", "repository text"}

\* response.text of the model after clean-up.
ModelTexts == {"X"}

\* f"Failed to clone repository: {e.stderr[:500]}"
CLONE_FAILED_MESSAGE == "Failed to clone repository: <stderr[:500]>"

\* f"Internal error during repository processing: {str(e)[:500]}"
INTERNAL_ERROR_MESSAGE == "Internal error during repository processing: <str(e)[:500]>"

\* str(e) of the errors generate_summary raises.
AI_NOT_INITIALIZED_MESSAGE == "AI Model not initialized. Cannot generate summary."

AI_NO_TEXT_MESSAGE == "No text content received by analyzer."

AI_BLOCKED_MESSAGE == "Content generation blocked by safety filters: <reason>"

AI_NO_CANDIDATE_MESSAGE == "No summary content received from Gemini. Finish reason: <finish_reason>"

AI_API_ERROR_MESSAGE == "Failed to generate summary due to an API error: <type(e).__name__>"

\* f"Unexpected error in AI analysis: {type(e).__name__}"
AI_UNEXPECTED_MESSAGE == "Unexpected error in AI analysis: <type(e).__name__>"

\* The job's entry in the failed-job registry: its function and the exception.
FailedJob(job, error) == [func |-> job.func, error |-> error]

\* _send_to_queue: the job is appended to the queue; when the broker cannot be
\* reached the exception is logged and swallowed.
send_to_queue(queue, task_function_path, payload, broker_ok) ==
    IF broker_ok THEN Append(queue, Job(task_function_path, <<payload>>)) ELSE queue

\* _send_status_update: the payload has analysis_id and status, and
\* error_message when one is given; it never carries summary_content.
send_status_update(queue, analysis_id, status, error_message, broker_ok) ==
    send_to_queue(queue, PROCESS_ANALYSIS_RESULT,
                  [analysis_id |-> analysis_id, status |-> status,
                   summary_content |-> None, error_message |-> error_message],
                  broker_ok)

\* result_q.enqueue(...) of the AI worker.
ai_result_job(analysis_id, status, summary_content, error_message) ==
    Job(PROCESS_ANALYSIS_RESULT,
        << [analysis_id |-> analysis_id, status |-> status,
            summary_content |-> summary_content,
            error_message |-> error_message] >>)

\* ai_task_payload of process_repo_task, as the AI worker's .get reads it:
\* the content is under parsed_repo_content, the key extracted_text is absent.
ai_task_payload(analysis_id, parsed_data, analysis_parameters, result_queue_name) ==
    [analysis_id |-> analysis_id,
     extracted_text |-> None,
     parsed_repo_content |-> parsed_data,
     analysis_parameters |-> analysis_parameters,
     result_queue_name |-> result_queue_name]

\* base_temp_dir / f"analysis_{analysis_id}_{os.urandom(4).hex()}"
TempCloneDir(analysis_id, suffix) == [analysis_id |-> analysis_id, suffix |-> suffix]

\* No directory: the value of temp_clone_dir outside a run.
NoDir == TempCloneDir(NoId, None)

\* os.urandom(4).hex(): two of the 2^32 values.
Suffixes == {"0a1b2c3d", "4e5f6a7b"}

RepoIdle == [pc |-> "idle", analysis_id |-> NoId, analysis_parameters |-> NoParameters,
             result_queue_name |-> None, temp_clone_dir |-> NoDir,
             outcome |-> None, enqueued |-> FALSE, error_message_len |-> 0,
             github_token |-> None, clone_credential |-> None]

\* Repo.clone_from(repository_url, str(temp_clone_dir), depth=1): the
\* credential the clone is invoked with.  The task's github_token is not among
\* the arguments, and the URL is passed as it came.
clone_from_credential(github_token) == None

\* No prompt: the value of the prompt before generate_summary built one.
NoPrompt == [lang |-> None, length_guidance |-> None, technical_guidance |-> None,
             text |-> None]

AiIdle == [pc |-> "idle", analysis_id |-> NoId, extracted_text |-> None,
           analysis_parameters |-> NoParameters, result_queue_name |-> None,
           prompt |-> NoPrompt]

\* A job for process_repo_task with the five positional arguments of its
\* signature is put on the repo queue (a delivery or redelivery of the task).
deliver_process_repo_task(analysis_id, repository_url, github_token, analysis_parameters) ==
    /\ deliveries < MaxDeliveries
    /\ deliveries' = deliveries + 1
    /\ repo_q' = Append(repo_q, Job(PROCESS_REPO_TASK,
                                    <<analysis_id, repository_url, github_token,
                                      analysis_parameters, RESULT_QUEUE>>))
    /\ UNCHANGED <<walk, fetch, repo_parked, status_response, store, next_id, request, ai_q, result_q, failed_jobs,
                   repo_run, ai_run, temp_dirs, fault, last_terminal>>

\* The repo worker takes the next job and calls process_repo_task(*args): a
\* call that does not bind the five parameters raises TypeError; otherwise the
\* task names its temporary directory and sends the processing_repo status
\* update.
process_repo_task_start(suffix, broker_ok) ==
    /\ repo_run.pc = "idle"
    /\ repo_q # <<>>
    /\ repo_q' = Tail(repo_q)
    /\ LET job == Head(repo_q) IN
       IF Len(job.args) # 5
       THEN /\ failed_jobs' = failed_jobs \cup {FailedJob(job, "TypeError")}
            /\ UNCHANGED <<repo_run, result_q, fault>>
       ELSE /\ repo_run' = [RepoIdle EXCEPT
                                !.pc = "clone",
                                !.analysis_id = job.args[1],
                                !.github_token = job.args[3],
                                !.analysis_parameters = job.args[4],
                                !.result_queue_name = job.args[5],
                                !.temp_clone_dir = TempCloneDir(job.args[1], suffix),
                                !.enqueued = broker_ok]
            /\ result_q' = send_status_update(result_q, job.args[1],
                                              "processing_repo", None, broker_ok)
            /\ fault' = (fault \/ ~broker_ok)
            /\ UNCHANGED failed_jobs
    /\ UNCHANGED <<walk, fetch, repo_parked, status_response, store, next_id, request, ai_q, ai_run, deliveries, temp_dirs,
                   last_terminal>>

\* What the run meets from os.makedirs on: makedirs raises (OSError), the
\* clone raises GitCommandError, the clone and the parse succeed (cloned), or
\* the clone or the parse raises any other exception (Exception).
CloneOutcomes == {"cloned", "GitCommandError", "Exception", "OSError"}

\* The slice [:500] of e.stderr and of str(e).
ERROR_TEXT_LIMIT == 500

\* len("Failed to clone repository: ")
CLONE_FAILED_PREFIX_LEN == 28

\* len("Internal error during repository processing: ")
INTERNAL_ERROR_PREFIX_LEN == 45

\* len(text[:limit]) for a text of text_len characters.
SliceLen(text_len, limit) == IF text_len > limit THEN limit ELSE text_len

\* The lengths of e.stderr and of str(e) the model offers.
ErrorTextLengths == {0, 500, 501}

\* A plausible slip: the error text is not cut.
clone_failed_message_len_uncut(stderr_len) == CLONE_FAILED_PREFIX_LEN + stderr_len

\* len(f"Failed to clone repository: {e.stderr[:500]}")
clone_failed_message_len(stderr_len) ==
    CLONE_FAILED_PREFIX_LEN + SliceLen(stderr_len, ERROR_TEXT_LIMIT)

\* len(f"Internal error during repository processing: {str(e)[:500]}")
internal_error_message_len(text_len) ==
    INTERNAL_ERROR_PREFIX_LEN + SliceLen(text_len, ERROR_TEXT_LIMIT)

\* process_repo_task from os.makedirs on: a clone failure sends a failed
\* result and returns; a clone followed by the parse hands the parsed content
\* to the AI queue; any other exception sends a failed result with the
\* internal-error text.  The directory exists from makedirs on.
process_repo_task_clone(outcome, error_text_len, repo, broker_ok) ==
    /\ repo_run.pc = "clone"
    /\ temp_dirs' = IF outcome = "OSError" THEN temp_dirs
                    ELSE temp_dirs \cup {repo_run.temp_clone_dir}
    /\ IF outcome = "GitCommandError"
       THEN /\ result_q' = send_status_update(result_q, repo_run.analysis_id, "failed",
                                              CLONE_FAILED_MESSAGE, broker_ok)
            /\ repo_run' = [repo_run EXCEPT
                                !.pc = "cleanup", !.outcome = outcome,
                                !.enqueued = broker_ok,
                                !.clone_credential =
                                    clone_from_credential(repo_run.github_token),
                                !.error_message_len = clone_failed_message_len(error_text_len)]
            /\ UNCHANGED ai_q
       ELSE IF outcome = "cloned"
       THEN /\ ai_q' = send_to_queue(ai_q, AI_TASK_FUNCTION_PATH,
                                     ai_task_payload(repo_run.analysis_id,
                                                     parse_repo_content(repo),
                                                     repo_run.analysis_parameters,
                                                     repo_run.result_queue_name),
                                     broker_ok)
            /\ repo_run' = [repo_run EXCEPT
                                !.pc = "cleanup", !.outcome = outcome,
                                !.clone_credential =
                                    clone_from_credential(repo_run.github_token),
                                !.enqueued = broker_ok]
            /\ UNCHANGED result_q
       ELSE /\ result_q' = send_status_update(result_q, repo_run.analysis_id, "failed",
                                              INTERNAL_ERROR_MESSAGE, broker_ok)
            /\ repo_run' = [repo_run EXCEPT
                                !.pc = "cleanup", !.outcome = outcome,
                                !.enqueued = broker_ok,
                                !.error_message_len = internal_error_message_len(error_text_len)]
            /\ UNCHANGED ai_q
    /\ fault' = (fault \/ ~broker_ok \/ outcome # "cloned")
    /\ UNCHANGED <<walk, fetch, repo_parked, status_response, store, next_id, request, repo_q, failed_jobs, ai_run,
                   deliveries, last_terminal>>

\* The finally block of process_repo_task and its normal return: when the
\* directory exists shutil.rmtree is called, and an exception it raises is
\* logged and swallowed.
process_repo_task_finish(rmtree_ok) ==
    /\ repo_run.pc = "cleanup"
    /\ temp_dirs' = IF repo_run.temp_clone_dir \in temp_dirs /\ rmtree_ok
                    THEN temp_dirs \ {repo_run.temp_clone_dir}
                    ELSE temp_dirs
    /\ repo_run' = RepoIdle
    /\ UNCHANGED <<walk, fetch, repo_parked, status_response, store, next_id, request, repo_q, ai_q, result_q, failed_jobs,
                   ai_run, deliveries, fault, last_terminal>>

\* A second worker process listens on the repo queue and runs the same task
\* function: the operating system takes one of the two off the processor and
\* lets the other go on with its call.
schedule_other_repo_worker ==
    /\ repo_run' = repo_parked
    /\ repo_parked' = repo_run
    /\ UNCHANGED <<store, next_id, request, repo_q, ai_q, result_q, failed_jobs,
                   ai_run, deliveries, temp_dirs, status_response, fetch, fault,
                   last_terminal, walk>>

\* A job for analyze_text_task with the payload keys it reads is put on the AI
\* queue (a delivery or redelivery of the task).
deliver_analyze_text_task(analysis_id, extracted_text, analysis_parameters) ==
    /\ deliveries < MaxDeliveries
    /\ deliveries' = deliveries + 1
    /\ ai_q' = Append(ai_q, Job(ANALYZE_TEXT_TASK,
                                << [analysis_id |-> analysis_id,
                                    extracted_text |-> extracted_text,
                                    parsed_repo_content |-> NoContent,
                                    analysis_parameters |-> analysis_parameters,
                                    result_queue_name |-> RESULT_QUEUE] >>))
    /\ UNCHANGED <<walk, fetch, repo_parked, status_response, store, next_id, request, repo_q, result_q, failed_jobs,
                   repo_run, ai_run, temp_dirs, fault, last_terminal>>

\* Python's truth value of a string-or-None payload field.
Truthy(value) == value # None /\ value # ""

\* The AI worker takes the next job: a function path its code base does not
\* define fails the job at import; analyze_text_task returns at once, sending
\* nothing, when one of the four payload fields is missing or empty.
analyze_text_task_start ==
    /\ ai_run.pc = "idle"
    /\ ai_q # <<>>
    /\ ai_q' = Tail(ai_q)
    /\ LET job == Head(ai_q)
           task_payload == job.args[1]
       IN IF job.func # ANALYZE_TEXT_TASK
          THEN /\ failed_jobs' = failed_jobs \cup {FailedJob(job, "ImportError")}
               /\ UNCHANGED ai_run
          ELSE IF ~ /\ task_payload.analysis_id # NoId
                    /\ Truthy(task_payload.extracted_text)
                    /\ task_payload.analysis_parameters # NoParameters
                    /\ Truthy(task_payload.result_queue_name)
          THEN UNCHANGED <<failed_jobs, ai_run>>
          ELSE /\ ai_run' = [AiIdle EXCEPT
                                 !.pc = "notify",
                                 !.analysis_id = task_payload.analysis_id,
                                 !.extracted_text = task_payload.extracted_text,
                                 !.analysis_parameters = task_payload.analysis_parameters,
                                 !.result_queue_name = task_payload.result_queue_name]
               /\ UNCHANGED failed_jobs
    /\ UNCHANGED <<walk, fetch, repo_parked, status_response, store, next_id, request, repo_q, result_q, repo_run,
                   deliveries, temp_dirs, fault, last_terminal>>

\* A plausible slip: generate_summary is called without the processing status
\* having been sent.
analyze_text_task_notify_skipped ==
    /\ ai_run.pc = "notify"
    /\ ai_run' = [ai_run EXCEPT !.pc = "generate"]
    /\ UNCHANGED <<walk, fetch, repo_parked, status_response, store, next_id, request, repo_q, ai_q, result_q,
                   failed_jobs, repo_run, deliveries, temp_dirs, fault, last_terminal>>

\* analyze_text_task tells the API service that the AI processing started.
analyze_text_task_notify ==
    /\ ai_run.pc = "notify"
    /\ result_q' = Append(result_q,
                          ai_result_job(ai_run.analysis_id, "PROCESSING", None, None))
    /\ ai_run' = [ai_run EXCEPT !.pc = "generate"]
    /\ UNCHANGED <<walk, fetch, repo_parked, status_response, store, next_id, request, repo_q, ai_q, failed_jobs, repo_run,
                   deliveries, temp_dirs, fault, last_terminal>>

\* The branch of the wrapper's try statement a run ends in: no exception, an
\* AISummaryError / ValueError / AIInitializationError, any other exception.
GenerateOutcomes == {"summary", "AISummaryError", "Exception"}

\* str.lower() on the tier values the model offers.
Lower(value) ==
    CASE value = "LARGE" -> "large"
      [] value = "Expert" -> "expert"
      [] OTHER -> value

\* The analysis_parameters dicts of the AI tasks the model delivers: tiers of
\* the tables, tiers in another case, tiers that are in no table, and a dict
\* without the two keys (None is an absent key).
AiTaskParameters ==
    {[lang |-> "en", size |-> "medium", technicality |-> "technical"],
     [lang |-> "en", size |-> "LARGE", technicality |-> "Expert"],
     [lang |-> "en", size |-> "huge", technicality |-> "guru"],
     [lang |-> "en", size |-> None, technicality |-> None]}

\* dict.get(key, default) on a dict whose absent keys hold None.
Get(value, default) == IF value = None THEN default ELSE value

\* A plausible slip: .get without the default, which yields None for a size
\* that is not in the table.
length_guidance_no_default(size) ==
    CASE Lower(size) = "small" -> "concise (around 2-3 paragraphs)"
      [] Lower(size) = "medium" -> "detailed (several paragraphs, covering key aspects)"
      [] Lower(size) = "large" ->
             "very detailed and comprehensive (multiple sections, extensive coverage)"
      [] OTHER -> None

\* length_guidance of generate_summary: {...}.get(size.lower(), default)
length_guidance(size) ==
    CASE Lower(size) = "small" -> "concise (around 2-3 paragraphs)"
      [] Lower(size) = "medium" -> "detailed (several paragraphs, covering key aspects)"
      [] Lower(size) = "large" ->
             "very detailed and comprehensive (multiple sections, extensive coverage)"
      [] OTHER -> "detailed (several paragraphs)"

\* technical_guidance of generate_summary: {...}.get(technicality.lower(), default)
technical_guidance(technicality) ==
    CASE Lower(technicality) = "non-technical" ->
             "for a non-technical team member or client (simple language, focus on purpose and value)."
      [] Lower(technicality) = "technical" ->
             "for a software developer (mention key technologies, structure, and how to get started)."
      [] Lower(technicality) = "expert" ->
             "for an expert in the domain (deep dive into architecture, advanced concepts, and potential challenges)."
      [] OTHER -> "for a software developer."

\* generate_summary up to the request to the model: the two guards, then the
\* prompt.  raised is the exception of a guard, None when the prompt was built.
generate_summary_prompt(model_ok, text, lang, size, technicality) ==
    IF ~model_ok
    THEN [raised |-> "AIInitializationError", message |-> AI_NOT_INITIALIZED_MESSAGE,
          prompt |-> NoPrompt]
    ELSE IF ~Truthy(text)
    THEN [raised |-> "ValueError", message |-> AI_NO_TEXT_MESSAGE, prompt |-> NoPrompt]
    ELSE [raised |-> None, message |-> None,
          prompt |-> [lang |-> lang,
                      length_guidance |-> length_guidance(size),
                      technical_guidance |-> technical_guidance(technicality),
                      text |-> text]]

\* What model.generate_content_async answers: a text, a block by the safety
\* filter, a response without candidate content, or an exception of the API.
ApiOutcomes == {"text", "blocked", "no_candidates", "api_error"}

\* generate_summary from the request on: the summary, or the AIGenerationError.
generate_summary_response(api, model_text) ==
    CASE api = "text" -> [raised |-> None, message |-> None, summary |-> model_text]
      [] api = "blocked" ->
             [raised |-> "AIGenerationError", message |-> AI_BLOCKED_MESSAGE, summary |-> None]
      [] api = "no_candidates" ->
             [raised |-> "AIGenerationError", message |-> AI_NO_CANDIDATE_MESSAGE,
              summary |-> None]
      [] api = "api_error" ->
             [raised |-> "AIGenerationError", message |-> AI_API_ERROR_MESSAGE,
              summary |-> None]

\* The branch of the wrapper that handles an exception of the try block.
Branch(raised) ==
    IF raised = None THEN "summary"
    ELSE IF raised \in {"AISummaryError", "AIInitializationError", "AIGenerationError",
                        "ValueError"}
    THEN "AISummaryError"
    ELSE "Exception"

\* A plausible slip: the unexpected exception is raised again without the
\* FAILED result being sent first.
analyze_text_task_end_raises_unsent(branch, summary, message) ==
    /\ ai_run' = AiIdle
    /\ IF branch = "summary"
       THEN /\ result_q' = Append(result_q,
                                  ai_result_job(ai_run.analysis_id, "COMPLETED", summary, None))
            /\ UNCHANGED failed_jobs
       ELSE IF branch = "AISummaryError"
       THEN /\ result_q' = Append(result_q,
                                  ai_result_job(ai_run.analysis_id, "FAILED", None, message))
            /\ UNCHANGED failed_jobs
       ELSE /\ UNCHANGED result_q
            /\ failed_jobs' = failed_jobs \cup
                   {FailedJob(Job(ANALYZE_TEXT_TASK, <<>>), "Exception")}
    /\ fault' = (fault \/ branch # "summary")
    /\ UNCHANGED <<walk, fetch, repo_parked, status_response, store, next_id, request, repo_q, ai_q, repo_run, deliveries,
                   temp_dirs, last_terminal>>

\* The end of a run of the wrapper in the branch given: the COMPLETED result,
\* the FAILED result with str(e), or the FAILED result with the exception's
\* type name followed by the re-raise, which fails the job.
analyze_text_task_end(branch, summary, message) ==
    /\ ai_run' = AiIdle
    /\ IF branch = "summary"
       THEN /\ result_q' = Append(result_q,
                                  ai_result_job(ai_run.analysis_id, "COMPLETED", summary, None))
            /\ UNCHANGED failed_jobs
       ELSE IF branch = "AISummaryError"
       THEN /\ result_q' = Append(result_q,
                                  ai_result_job(ai_run.analysis_id, "FAILED", None, message))
            /\ UNCHANGED failed_jobs
       ELSE /\ result_q' = Append(result_q,
                                  ai_result_job(ai_run.analysis_id, "FAILED", None,
                                                AI_UNEXPECTED_MESSAGE))
            /\ failed_jobs' = failed_jobs \cup
                   {FailedJob(Job(ANALYZE_TEXT_TASK, <<>>), "Exception")}
    /\ fault' = (fault \/ branch # "summary")
    /\ UNCHANGED <<walk, fetch, repo_parked, status_response, store, next_id, request, repo_q, ai_q, repo_run, deliveries,
                   temp_dirs, last_terminal>>

\* analyze_text_task calls generate_summary, which checks the model and the
\* text and builds the prompt; an exception ends the run in its branch.
analyze_text_task_prompt(model_ok) ==
    /\ ai_run.pc = "generate"
    /\ LET built == generate_summary_prompt(
                        model_ok, ai_run.extracted_text,
                        Get(ai_run.analysis_parameters.lang, "en"),
                        Get(ai_run.analysis_parameters.size, "medium"),
                        Get(ai_run.analysis_parameters.technicality, "technical"))
       IN IF built.raised = None
          THEN /\ ai_run' = [ai_run EXCEPT !.pc = "call", !.prompt = built.prompt]
               /\ UNCHANGED <<walk, fetch, repo_parked, status_response, store, next_id, request, repo_q, ai_q, result_q,
                              failed_jobs, repo_run, deliveries, temp_dirs, fault,
                              last_terminal>>
          ELSE analyze_text_task_end(Branch(built.raised), None, built.message)

\* analyze_text_task from the model's answer on: the summary is sent as
\* COMPLETED, an analyzer error as FAILED, and an exception outside the
\* taxonomy (unexpected) as FAILED before it is raised again.
analyze_text_task_generate(api, model_text, unexpected) ==
    /\ ai_run.pc = "call"
    /\ LET answer == generate_summary_response(api, model_text)
       IN analyze_text_task_end(IF unexpected THEN "Exception" ELSE Branch(answer.raised),
                                answer.summary, answer.message)

\* The result worker takes the next job of the result queue and runs
\* process_analysis_result on its payload.
consume_result(db_state) ==
    /\ result_q # <<>>
    /\ result_q' = Tail(result_q)
    /\ store' = process_analysis_result_on(db_state, store, Head(result_q).args[1])
    /\ last_terminal' = IF db_state = "ok"
                        THEN RecordTerminal(store, last_terminal, Head(result_q).args[1])
                        ELSE last_terminal
    /\ failed_jobs' = FailedResultJobs(failed_jobs, Head(result_q).args[1], db_state)
    /\ fault' = (fault \/ db_state # "ok")
    /\ UNCHANGED <<walk, fetch, repo_parked, status_response, next_id, request, repo_q, ai_q, repo_run, ai_run,
                   deliveries, temp_dirs>>

\* ---------------------------------------------------------- content filter

TEXT_EXTENSIONS ==
    {".bat", ".c", ".cfg", ".cpp", ".cs", ".css", ".go", ".h", ".hpp",
     ".html", ".ini", ".java", ".js", ".json", ".kt", ".log", ".md", ".php",
     ".ps1", ".py", ".rb", ".rst", ".scala", ".sh", ".sql", ".swift",
     ".toml", ".ts", ".txt", ".xml", ".yaml", ".yml", "dockerfile"}

CODE_EXTENSIONS ==
    {".bash", ".c", ".cpp", ".cs", ".css", ".dart", ".erb", ".fs", ".go",
     ".groovy", ".h", ".hpp", ".html", ".ino", ".java", ".js", ".jsx",
     ".kt", ".lua", ".m", ".mm", ".pas", ".perl", ".php", ".pl", ".ps1",
     ".py", ".r", ".rb", ".rs", ".scala", ".scss", ".sh", ".sql", ".swift",
     ".ts", ".tsx", ".vb", "Dockerfile", "dockerfile"}

IGNORE_DIRS ==
    {".git", ".idea", ".pytest_cache", ".vscode", "__pycache__", "build",
     "dist", "docs", "env", "examples", "node_modules", "samples", "target",
     "test", "tests", "vendor", "venv"}

IGNORE_FILES ==
    {".DS_Store", ".classpath", ".env", ".gitattributes", ".gitignore",
     ".project", ".settings"}

IGNORE_EXTENSIONS ==
    {".bin", ".class", ".dat", ".dll", ".doc", ".docx", ".eot", ".exe",
     ".gif", ".gz", ".ico", ".img", ".iso", ".jar", ".jpeg", ".jpg",
     ".lock", ".map", ".min.css", ".min.js", ".mp3", ".mp4", ".o", ".obj",
     ".pdf", ".png", ".ppt", ".pptx", ".pyc", ".rar", ".so", ".svg",
     ".tar.gz", ".ttf", ".wav", ".webm", ".woff", ".woff2", ".xls", ".xlsx",
     ".zip"}

\* The keys of important_filenames_map: the names of IMPORTANT_FILES in lower
\* case.
important_filenames_map ==
    {".env.example", ".gitlab-ci.yml", ".travis.yml", "appsettings.json",
     "architecture.md", "babel.config.js", "build.gradle", "cargo.lock",
     "cargo.toml", "cmakelists.txt", "composer.json", "config.example.json",
     "contributing.md", "contributing.rst", "copying", "design.md",
     "docker-compose.yml", "dockerfile", "environment.yml", "gemfile",
     "gemfile.lock", "go.mod", "go.sum", "jenkinsfile", "license",
     "license.md", "license.txt", "makefile", "package.json", "pipfile",
     "pnpm-lock.yaml", "pom.xml", "pyproject.toml", "readme", "readme.md",
     "readme.rst", "readme.txt", "requirements.txt", "settings.gradle",
     "settings.py", "setup.py", "web.config", "webpack.config.js",
     "yarn.lock"}

MIN_FILE_SIZE_BYTES == 10

\* name.lower() for the file and directory names of the trees below.
LowerName(name) ==
    IF name = "README.md" \/ name = "ReadMe.MD" THEN "readme.md"
    ELSE IF name = "Dockerfile" THEN "dockerfile"
    ELSE IF name = "Tests" THEN "tests"
    ELSE IF name = "Cargo.lock" THEN "cargo.lock"
    ELSE name

\* name.startswith('.') for those names.
StartsWithDot(name) ==
    name \in {".travis.yml", ".env.example", ".gitignore", ".github"}

\* Path(name).suffix.lower() for those names: what follows the last dot, none
\* for a name without a dot or with a leading dot only.
Suffix(name) ==
    IF name \in {"main.py", "tiny.py", "huge.py", "setup.py"} THEN ".py"
    ELSE IF name \in {"README.md", "ReadMe.MD"} THEN ".md"
    ELSE IF name = "logo.png" THEN ".png"
    ELSE IF name = "notes.txt" THEN ".txt"
    ELSE IF name = "app.min.js" THEN ".js"
    ELSE IF name \in {"yarn.lock", "Cargo.lock"} THEN ".lock"
    ELSE IF name = "archive.tar.gz" THEN ".gz"
    ELSE IF name = ".travis.yml" THEN ".yml"
    ELSE IF name = ".env.example" THEN ".example"
    ELSE IF name = "model.weights" THEN ".weights"
    ELSE ""

\* A file of a working tree: the directories from the root down to it, its
\* name, a number that tells the files of one name apart, its size in bytes,
\* whether its first 1024 bytes hold a NUL byte, and whether reading it gives
\* any text.
File(dir, name, n, size, has_nul, readable) ==
    [dir |-> dir, name |-> name, n |-> n, size |-> size, has_nul |-> has_nul,
     readable |-> readable]

\* str(file_path_obj.relative_to(repo_root))
RelativePath(file) == [dir |-> file.dir, name |-> file.name, n |-> file.n]

\* The trees handed to parse_repo_content, each as the sequence of its files
\* in the order os.walk yields them.
ExampleTree ==
    << File(<<>>, "tiny.py", 1, 5, FALSE, TRUE),
       File(<<>>, "huge.py", 1, 2 * MAX_FILE_SIZE_BYTES, FALSE, TRUE),
       File(<<>>, "logo.png", 1, 1024, TRUE, TRUE),
       File(<<>>, "README.md", 1, 1024, FALSE, TRUE),
       File(<<>>, "main.py", 1, 1024, FALSE, TRUE) >>

PyTree ==
    [i \in 1..MaxTreeFiles |-> File(<<"src">>, "main.py", i, 1024, FALSE, TRUE)]

MixedTree ==
    [i \in 1..MaxTreeFiles |->
        IF i = 7 THEN File(<<"src">>, "tiny.py", i, 5, FALSE, TRUE)
        ELSE IF i = MAX_SOURCE_FILES THEN File(<<"src">>, "setup.py", i, 1024, FALSE, TRUE)
        ELSE IF i = MAX_SOURCE_FILES + 3 THEN File(<<"src">>, "README.md", i, 1024, FALSE, TRUE)
        ELSE File(<<"src">>, "main.py", i, 1024, FALSE, TRUE)]

EdgeTree ==
    << File(<<>>, "main.py", 1, MIN_FILE_SIZE_BYTES - 1, FALSE, TRUE),
       File(<<>>, "main.py", 2, MIN_FILE_SIZE_BYTES, FALSE, TRUE),
       File(<<>>, "main.py", 3, MAX_FILE_SIZE_BYTES, FALSE, TRUE),
       File(<<>>, "main.py", 4, MAX_FILE_SIZE_BYTES + 1, FALSE, TRUE),
       File(<<>>, "main.py", 5, 1024, FALSE, FALSE),
       File(<<>>, "ReadMe.MD", 1, 1024, FALSE, TRUE),
       File(<<>>, "README.md", 2, 5, FALSE, TRUE),
       File(<<>>, "setup.py", 1, 1024, FALSE, TRUE),
       File(<<>>, "Dockerfile", 1, 1024, FALSE, TRUE),
       File(<<>>, "notes.txt", 1, 1024, FALSE, TRUE),
       File(<<>>, "app.min.js", 1, 1024, FALSE, TRUE),
       File(<<>>, "yarn.lock", 1, 1024, FALSE, TRUE),
       File(<<>>, "Cargo.lock", 1, 1024, FALSE, TRUE),
       File(<<>>, "archive.tar.gz", 1, 1024, TRUE, TRUE),
       File(<<>>, ".travis.yml", 1, 1024, FALSE, TRUE),
       File(<<>>, ".env.example", 1, 1024, FALSE, TRUE),
       File(<<>>, "model.weights", 1, 1024, TRUE, TRUE),
       File(<<>>, "model.weights", 2, 1024, FALSE, TRUE),
       File(<<"src", "Tests">>, "main.py", 1, 1024, FALSE, TRUE),
       File(<<".github">>, "main.py", 1, 1024, FALSE, TRUE),
       File(<<".github">>, "README.md", 1, 1024, FALSE, TRUE),
       File(<<"node_modules", "lib">>, "README.md", 1, 1024, FALSE, TRUE),
       File(<<"src", "lib">>, "README.md", 1, 1024, FALSE, TRUE),
       File(<<"src", "lib">>, "main.py", 1, 1024, FALSE, TRUE) >>

Trees == {ExampleTree, PyTree, MixedTree, EdgeTree}

\* Whether os.walk never yields the files of dir: one of the directories on
\* the way was taken out of dir_names.
Pruned(dir) ==
    \E i \in 1..Len(dir) :
        LowerName(dir[i]) \in IGNORE_DIRS \/ StartsWithDot(dir[i])

read_file_content_exclusive_min(file) ==
    IF file.size > MAX_FILE_SIZE_BYTES THEN 0
    ELSE IF file.size <= MIN_FILE_SIZE_BYTES THEN 0
    ELSE IF file.readable THEN file.size
    ELSE 0

\* read_file_content(file_path): the number of characters read; 0 stands for
\* None and for an empty text, which the caller treats alike.
read_file_content(file) ==
    IF file.size > MAX_FILE_SIZE_BYTES THEN 0
    ELSE IF file.size < MIN_FILE_SIZE_BYTES THEN 0
    ELSE IF file.readable THEN file.size
    ELSE 0

\* is_likely_binary(file_path)
is_likely_binary(file) == file.has_nul

parse_repo_content_file_cap_inclusive(parsed, file) ==
    IF Pruned(file.dir) THEN parsed
    ELSE IF LowerName(file.name) \in IGNORE_FILES \/ StartsWithDot(file.name) THEN parsed
    ELSE IF Suffix(file.name) \in IGNORE_EXTENSIONS THEN parsed
    ELSE IF Suffix(file.name) \notin TEXT_EXTENSIONS \cup CODE_EXTENSIONS
            /\ is_likely_binary(file) THEN parsed
    ELSE IF read_file_content(file) = 0 THEN parsed
    ELSE IF LowerName(file.name) \in important_filenames_map
    THEN [parsed EXCEPT !.important = Append(@, RelativePath(file))]
    ELSE IF Suffix(file.name) \in CODE_EXTENSIONS
    THEN IF Len(parsed.source_files) <= MAX_SOURCE_FILES
         THEN [parsed EXCEPT !.source_files = Append(@, RelativePath(file))]
         ELSE parsed
    ELSE parsed

\* A plausible slip: the important names are looked up before the skip rules
\* on the file's name and extension.
parse_repo_content_file_important_first(parsed, file) ==
    IF Pruned(file.dir) THEN parsed
    ELSE IF LowerName(file.name) \in important_filenames_map
            /\ read_file_content(file) # 0
    THEN [parsed EXCEPT !.important = Append(@, RelativePath(file))]
    ELSE IF LowerName(file.name) \in IGNORE_FILES \/ StartsWithDot(file.name) THEN parsed
    ELSE IF Suffix(file.name) \in IGNORE_EXTENSIONS THEN parsed
    ELSE IF Suffix(file.name) \notin TEXT_EXTENSIONS \cup CODE_EXTENSIONS
            /\ is_likely_binary(file) THEN parsed
    ELSE IF read_file_content(file) = 0 THEN parsed
    ELSE IF Suffix(file.name) \in CODE_EXTENSIONS
    THEN IF Len(parsed.source_files) < MAX_SOURCE_FILES
         THEN [parsed EXCEPT !.source_files = Append(@, RelativePath(file))]
         ELSE parsed
    ELSE parsed

\* The body of the loops of parse_repo_content for one file: parsed_data after
\* it, "important" and "source_files" each given as the sequence of the
\* relative paths entered so far.
parse_repo_content_file(parsed, file) ==
    IF Pruned(file.dir) THEN parsed
    ELSE IF LowerName(file.name) \in IGNORE_FILES \/ StartsWithDot(file.name) THEN parsed
    ELSE IF Suffix(file.name) \in IGNORE_EXTENSIONS THEN parsed
    ELSE IF Suffix(file.name) \notin TEXT_EXTENSIONS \cup CODE_EXTENSIONS
            /\ is_likely_binary(file) THEN parsed
    ELSE IF read_file_content(file) = 0 THEN parsed
    ELSE IF LowerName(file.name) \in important_filenames_map
    THEN [parsed EXCEPT !.important = Append(@, RelativePath(file))]
    ELSE IF Suffix(file.name) \in CODE_EXTENSIONS
    THEN IF Len(parsed.source_files) < MAX_SOURCE_FILES
         THEN [parsed EXCEPT !.source_files = Append(@, RelativePath(file))]
         ELSE parsed
    ELSE parsed

WalkIdle == [pc |-> "idle", tree |-> <<>>, pos |-> 1,
             parsed |-> [important |-> <<>>, source_files |-> <<>>]]

\* parse_repo_content(repo_path) is called on a tree.
parse_repo_content_begin(tree) ==
    /\ walk.pc = "idle"
    /\ walk' = [WalkIdle EXCEPT !.pc = "walk", !.tree = tree]
    /\ UNCHANGED <<store, next_id, request, repo_q, ai_q, result_q, failed_jobs,
                   repo_run, ai_run, deliveries, temp_dirs, status_response,
                   fetch, repo_parked, fault, last_terminal>>

\* The walk takes the next file; after the last one parse_repo_content
\* returns parsed_data.
parse_repo_content_next ==
    /\ walk.pc = "walk"
    /\ walk' = IF walk.pos > Len(walk.tree)
               THEN [walk EXCEPT !.pc = "done"]
               ELSE [walk EXCEPT
                        !.parsed = parse_repo_content_file(@, walk.tree[walk.pos]),
                        !.pos = @ + 1]
    /\ UNCHANGED <<store, next_id, request, repo_q, ai_q, result_q, failed_jobs,
                   repo_run, ai_run, deliveries, temp_dirs, status_response,
                   fetch, repo_parked, fault, last_terminal>>

\* The caller has taken parsed_data.
parse_repo_content_end ==
    /\ walk.pc = "done"
    /\ walk' = WalkIdle
    /\ UNCHANGED <<store, next_id, request, repo_q, ai_q, result_q, failed_jobs,
                   repo_run, ai_run, deliveries, temp_dirs, status_response,
                   fetch, repo_parked, fault, last_terminal>>

\* ----------------------------------------------------------------- fetcher

\* A URL as parse_github_url reads it: the scheme ("" for a value that is empty
\* or not a string, "git@" for an SSH URL, "https" for a web URL), the host,
\* and the path split at "/" (after the first ":" of an SSH URL, after
\* strip("/") of a web URL's path).
FetchUrls ==
    [scheme : {"", "git@", "https"},
     netloc : {"github.com", "gitlab.com"},
     path : {<<"">>, <<"acme">>, <<"acme", "demo">>, <<"acme", "demo.git">>,
             <<"acme", ".git">>, <<"acme", "", "demo">>}]

\* segment.replace(".git", "") for the path segments of FetchUrls.
ReplaceDotGit(segment) ==
    IF segment = "demo.git" THEN "demo"
    ELSE IF segment = ".git" THEN ""
    ELSE segment

\* What parse_github_url returns, or that it raised URLParsingError.
URLParsingError == [ok |-> FALSE, owner |-> "", repo |-> ""]

parse_github_url_keeps_empty_names(url) ==
    IF url.scheme = ""
    THEN URLParsingError
    ELSE IF url.scheme = "https" /\ url.netloc # "github.com"
    THEN URLParsingError
    ELSE IF Len(url.path) >= 2
    THEN [ok |-> TRUE, owner |-> url.path[1], repo |-> ReplaceDotGit(url.path[2])]
    ELSE URLParsingError

\* parse_github_url(url): an SSH URL is read after its first ":", any other
\* URL must name a host containing github.com; the path must have two
\* segments, and neither the owner nor the repo name without ".git" may be
\* empty.
parse_github_url(url) ==
    IF url.scheme = ""
    THEN URLParsingError
    ELSE IF url.scheme = "https" /\ url.netloc # "github.com"
    THEN URLParsingError
    ELSE IF Len(url.path) >= 2
    THEN IF url.path[1] = "" \/ ReplaceDotGit(url.path[2]) = ""
         THEN URLParsingError
         ELSE [ok |-> TRUE, owner |-> url.path[1],
               repo |-> ReplaceDotGit(url.path[2])]
    ELSE URLParsingError

\* tempfile.mkdtemp(prefix="gitinsight_repo_", dir=base_temp_dir): the names it
\* may draw; it creates a directory that did not exist.
MkdtempNames == {"gitinsight_repo_a1b2c3", "gitinsight_repo_d4e5f6"}

MkdtempDir(name) == [analysis_id |-> NoId, suffix |-> name]

\* e.stderr of the failed git process: the phrase clone_repo looks for in it,
\* and where the text shows the token of the clone URL: nowhere, within the
\* first 200 characters, or only after them.  An absent or blank stderr is
\* the phrase "empty".
GitStderrs ==
    [phrase : {"Authentication failed", "could not read Username",
               "Repository not found", "other", "empty"},
     token : {"absent", "head", "tail"}]

\* How subprocess.run ends: the clone succeeds, git exits non-zero, git is not
\* installed, or any other exception.
RunOutcomes == {"cloned", "CalledProcessError", "FileNotFoundError", "Exception"}

\* The error_message of the CalledProcessError branch: which suffix it gets,
\* and whether it shows the token.
git_failed_message(token, stderr) ==
    IF stderr.phrase = "Authentication failed"
           \/ (token = None /\ stderr.phrase = "could not read Username")
    THEN [text |-> "Failed to clone repository. Authentication failed.",
          shows_token |-> FALSE]
    ELSE IF stderr.phrase = "Repository not found"
    THEN [text |-> "Failed to clone repository. Repository not found or access denied.",
          shows_token |-> FALSE]
    ELSE IF stderr.phrase = "empty"
    THEN [text |-> "Failed to clone repository. Git error: No stderr output.",
          shows_token |-> FALSE]
    ELSE [text |-> "Failed to clone repository. Git error: <stderr[:200]>",
          shows_token |-> (token # None /\ stderr.token = "head")]

\* Whether the logger.error line of the CalledProcessError branch, which ends
\* with the whole stderr, shows the token.
git_failed_log_shows_token(token, stderr) ==
    token # None /\ stderr.phrase # "empty" /\ stderr.token # "absent"

NoMessage == [text |-> None, shows_token |-> FALSE]

FetchIdle == [pc |-> "idle", url |-> [scheme |-> "", netloc |-> "github.com", path |-> <<"">>],
              token |-> None, temp_dir |-> NoDir, subprocess_runs |-> 0,
              raised |-> None, error_message |-> NoMessage,
              log_shows_token |-> FALSE, rmtree_ok |-> TRUE]

\* clone_repo(url, token, base_temp_dir) up to mkdtemp: the directory is
\* created before the URL is looked at.
clone_repo_mkdtemp(url, token, name) ==
    /\ fetch.pc = "idle"
    /\ MkdtempDir(name) \notin temp_dirs
    /\ temp_dirs' = temp_dirs \cup {MkdtempDir(name)}
    /\ fetch' = [FetchIdle EXCEPT !.pc = "parse", !.url = url, !.token = token,
                                  !.temp_dir = MkdtempDir(name)]
    /\ UNCHANGED <<store, next_id, request, repo_q, ai_q, result_q, failed_jobs,
                   repo_run, ai_run, deliveries, status_response, repo_parked,
                   fault, last_terminal, walk>>

\* clone_repo from the call of parse_github_url to the git command line: a
\* rejected URL removes the directory, as far as rmtree manages to
\* (ignore_errors=True), and raises CloningError.
clone_repo_parse(rmtree_ok) ==
    /\ fetch.pc = "parse"
    /\ IF parse_github_url(fetch.url) = URLParsingError
       THEN /\ temp_dirs' = IF rmtree_ok THEN temp_dirs \ {fetch.temp_dir}
                            ELSE temp_dirs
            /\ fetch' = [fetch EXCEPT
                            !.pc = "done", !.raised = "CloningError",
                            !.error_message =
                                [text |-> "Invalid GitHub URL for cloning: <e>",
                                 shows_token |-> FALSE],
                            !.rmtree_ok = rmtree_ok]
       ELSE /\ fetch' = [fetch EXCEPT !.pc = "run"]
            /\ UNCHANGED temp_dirs
    /\ UNCHANGED <<store, next_id, request, repo_q, ai_q, result_q, failed_jobs,
                   repo_run, ai_run, deliveries, status_response, repo_parked,
                   fault, last_terminal, walk>>

\* clone_repo from subprocess.run on: the clone succeeds and the directory is
\* returned, or the directory is removed, as far as rmtree manages to, and
\* CloningError is raised with the message of the branch.
clone_repo_run(outcome, stderr, rmtree_ok) ==
    /\ fetch.pc = "run"
    /\ IF outcome = "cloned"
       THEN /\ fetch' = [fetch EXCEPT !.pc = "done",
                                      !.subprocess_runs = @ + 1]
            /\ UNCHANGED temp_dirs
       ELSE /\ temp_dirs' = IF rmtree_ok THEN temp_dirs \ {fetch.temp_dir}
                            ELSE temp_dirs
            /\ fetch' = [fetch EXCEPT
                            !.pc = "done",
                            !.subprocess_runs = @ + 1,
                            !.raised = "CloningError",
                            !.rmtree_ok = rmtree_ok,
                            !.error_message =
                                IF outcome = "CalledProcessError"
                                THEN git_failed_message(fetch.token, stderr)
                                ELSE IF outcome = "FileNotFoundError"
                                THEN [text |-> "Git command not found. Ensure Git is installed. Error: <e>",
                                      shows_token |-> FALSE]
                                ELSE [text |-> "Unexpected error during cloning: <type(e).__name__>",
                                      shows_token |-> FALSE],
                            !.log_shows_token =
                                IF outcome = "CalledProcessError"
                                THEN git_failed_log_shows_token(fetch.token, stderr)
                                ELSE FALSE]
    /\ UNCHANGED <<store, next_id, request, repo_q, ai_q, result_q, failed_jobs,
                   repo_run, ai_run, deliveries, status_response, repo_parked,
                   fault, last_terminal, walk>>

\* The call is over; the caller of a successful clone owns the directory.
clone_repo_return ==
    /\ fetch.pc = "done"
    /\ fetch' = FetchIdle
    /\ UNCHANGED <<store, next_id, request, repo_q, ai_q, result_q, failed_jobs,
                   repo_run, ai_run, deliveries, temp_dirs, status_response,
                   repo_parked, fault, last_terminal, walk>>

\* ------------------------------------------------------------ specification

Init ==
    /\ store = <<>>
    /\ next_id = 1
    /\ request = Idle
    /\ repo_q = <<>>
    /\ ai_q = <<>>
    /\ result_q = <<>>
    /\ failed_jobs = {}
    /\ repo_run = RepoIdle
    /\ ai_run = AiIdle
    /\ deliveries = 0
    /\ temp_dirs = {}
    /\ status_response = NoStatusCall
    /\ fetch = FetchIdle
    /\ repo_parked = RepoIdle
    /\ walk = WalkIdle
    /\ fault = FALSE
    /\ last_terminal = <<>>

\* The producer's request, as every specification takes it.
AnalyzeRepo ==
    \/ \E url \in RepositoryUrls, params \in AnalysisParameters,
          session \in Sessions :
          \* Each check is reached only when the one before it passed.
          \E redis_ok \in BOOLEAN :
          \E db_ok \in (IF redis_ok THEN BOOLEAN ELSE {TRUE}) :
          \E commit_ok \in (IF redis_ok /\ db_ok THEN BOOLEAN ELSE {TRUE}) :
          \E refresh_ok \in (IF redis_ok /\ db_ok /\ commit_ok THEN BOOLEAN ELSE {TRUE}) :
              analyze_repo_endpoint_create(url, params, session.user,
                                           session.github_token, redis_ok, db_ok,
                                           commit_ok, refresh_ok)
    \/ \E enqueue_ok \in BOOLEAN, delete_ok \in BOOLEAN :
          analyze_repo_endpoint_enqueue(enqueue_ok, delete_ok)

\* The record store with its two writers: the producer's endpoint and the
\* result consumer, which is handed any payload and finds the store working.
Next ==
    \/ AnalyzeRepo
    \/ \E payload \in ResultPayloads : ProcessAnalysisResult(payload, "ok")

Spec == Init /\ [][Next]_vars

\* The pipeline as deployed: the producer, the three RQ workers and the queues
\* between them, with task jobs also delivered in the shape the tasks take.
NextPipeline ==
    \/ AnalyzeRepo
    \/ \E id \in Ids, url \in RepositoryUrls, token \in GithubTokens,
          params \in AnalysisParameters :
          deliver_process_repo_task(id, url, token, params)
    \/ \E suffix \in Suffixes, broker_ok \in BOOLEAN :
          process_repo_task_start(suffix, broker_ok)
    \/ \E outcome \in CloneOutcomes, error_text_len \in ErrorTextLengths,
          repo \in Repos, broker_ok \in BOOLEAN :
          process_repo_task_clone(outcome, error_text_len, repo, broker_ok)
    \/ \E rmtree_ok \in BOOLEAN : process_repo_task_finish(rmtree_ok)
    \/ \E id \in Ids, text \in ExtractedTexts, params \in AnalysisParameters :
          deliver_analyze_text_task(id, text, params)
    \/ analyze_text_task_start
    \/ analyze_text_task_notify
    \/ \E model_ok \in BOOLEAN : analyze_text_task_prompt(model_ok)
    \/ \E api \in ApiOutcomes, text \in ModelTexts, unexpected \in BOOLEAN :
          analyze_text_task_generate(api, text, unexpected)
    \/ \E db_state \in DbStates : consume_result(db_state)

SpecPipeline == Init /\ [][NextPipeline]_vars

\* The repo-processing worker alone: task jobs are delivered to its queue and
\* it runs process_repo_task on them.
NextRepoWorker ==
    \/ \E id \in Ids, url \in RepositoryUrls, token \in GithubTokens,
          params \in AnalysisParameters :
          deliver_process_repo_task(id, url, token, params)
    \/ \E suffix \in Suffixes, broker_ok \in BOOLEAN :
          process_repo_task_start(suffix, broker_ok)
    \/ \E outcome \in CloneOutcomes, error_text_len \in ErrorTextLengths,
          repo \in Repos, broker_ok \in BOOLEAN :
          process_repo_task_clone(outcome, error_text_len, repo, broker_ok)
    \/ \E rmtree_ok \in BOOLEAN : process_repo_task_finish(rmtree_ok)

SpecRepoWorker == Init /\ [][NextRepoWorker]_vars

\* Two repo workers on the same queue, their calls interleaved.
NextRepoWorkers ==
    \/ NextRepoWorker
    \/ schedule_other_repo_worker

SpecRepoWorkers == Init /\ [][NextRepoWorkers]_vars

\* The record store as the producer's two endpoints use it: analyze_repo_endpoint
\* writes it, get_analysis_status_endpoint reads it.
NextStatus ==
    \/ AnalyzeRepo
    \/ \E analysis_id \in StatusIds, user_github_id \in Callers, db_ok \in BOOLEAN :
          get_analysis_status_endpoint(analysis_id, user_github_id, db_ok)

SpecStatus == Init /\ [][NextStatus]_vars

\* The content filter: calls of parse_repo_content, one after the other.
NextFilter ==
    \/ \E tree \in Trees : parse_repo_content_begin(tree)
    \/ parse_repo_content_next
    \/ parse_repo_content_end

SpecFilter == Init /\ [][NextFilter]_vars

\* The fetcher: calls of clone_repo, one after the other.
NextFetcher ==
    \/ \E url \in FetchUrls, token \in GithubTokens, name \in MkdtempNames :
          clone_repo_mkdtemp(url, token, name)
    \/ \E rmtree_ok \in BOOLEAN : clone_repo_parse(rmtree_ok)
    \/ \E outcome \in RunOutcomes, stderr \in GitStderrs, rmtree_ok \in BOOLEAN :
          clone_repo_run(outcome, stderr, rmtree_ok)
    \/ clone_repo_return

SpecFetcher == Init /\ [][NextFetcher]_vars

\* The AI-summarization worker alone: task jobs are delivered to its queue
\* with any of the parameter values, and it runs analyze_text_task on them.
NextAnalyzer ==
    \/ \E id \in Ids, text \in ExtractedTexts, params \in AiTaskParameters :
          deliver_analyze_text_task(id, text, params)
    \/ analyze_text_task_start
    \/ analyze_text_task_notify
    \/ \E model_ok \in BOOLEAN : analyze_text_task_prompt(model_ok)
    \/ \E api \in ApiOutcomes, text \in ModelTexts, unexpected \in BOOLEAN :
          analyze_text_task_generate(api, text, unexpected)

SpecAnalyzer == Init /\ [][NextAnalyzer]_vars

\* ------------------------------------------------------------------ claims

Rows == DOMAIN store

\* C1: once a row is COMPLETED or FAILED, no later step changes its status,
\* summary_content or error_message (the row may only disappear).
C1_TerminalIsFinal ==
    [][\A id \in Rows \cap DOMAIN store' :
          store[id].status \in Terminal =>
              /\ store'[id].status = store[id].status
              /\ store'[id].summary_content = store[id].summary_content
              /\ store'[id].error_message = store[id].error_message]_vars

\* C2: every row with a summary_content has status COMPLETED.
C2_SummaryOnlyIfCompleted ==
    \A id \in Rows : store[id].summary_content # None => store[id].status = COMPLETED

\* C3: every row with an error_message has status FAILED.
C3_ErrorOnlyIfFailed ==
    \A id \in Rows : store[id].error_message # None => store[id].status = FAILED

\* C3 witness: a failed message with an error text has been applied to a row.
C3_Witness ==
    \E id \in Rows : store[id].error_message # None /\ store[id].status = FAILED

\* Every queue is empty and no endpoint call or task run is in progress.
Quiescent ==
    /\ request.pc = "idle"
    /\ repo_run.pc = "idle"
    /\ ai_run.pc = "idle"
    /\ repo_q = <<>>
    /\ ai_q = <<>>
    /\ result_q = <<>>

\* C4: when a request was accepted, nothing failed (no broker or store
\* failure, the clones succeeded, the model returned its text) and the
\* pipeline has run to the end, the job's row is COMPLETED with the model's
\* text "X" as summary_content.
C4_SubmittedJobCompletes ==
    (request.response = "202" /\ ~fault /\ Quiescent) =>
        /\ request.analysis_id \in Rows
        /\ store[request.analysis_id].status = COMPLETED
        /\ store[request.analysis_id].summary_content = "X"

\* The place of a status in QUEUED < PROCESSING_REPO < PROCESSING_AI <
\* {COMPLETED, FAILED}.
Rank(status) ==
    CASE status = QUEUED -> 0
      [] status = PROCESSING_REPO -> 1
      [] status = PROCESSING_AI -> 2
      [] status \in Terminal -> 3

\* C5: no step of the pipeline moves a row's status backwards in the order
\* QUEUED < PROCESSING_REPO < PROCESSING_AI < {COMPLETED, FAILED}.
C5_StatusNeverRegresses ==
    [][\A id \in Rows \cap DOMAIN store' :
          Rank(store'[id].status) >= Rank(store[id].status)]_vars

\* C6: a row to which a terminal message was applied has the status of the
\* last terminal message applied to it.
C6_LastTerminalWins ==
    \A id \in Rows : last_terminal[id] # None => store[id].status = last_terminal[id]

\* C7: from every reachable store and for every payload, processing the
\* payload twice leaves every row as processing it once does.
C7_ApplyTwiceIsApplyOnce ==
    \A payload \in ResultPayloads :
        process_analysis_result(process_analysis_result(store, payload), payload)
            = process_analysis_result(store, payload)

\* C7 witness: a row that an update already changed and that some valid
\* payload would change again.
C7_Witness ==
    \E id \in Rows :
        /\ store[id].status # QUEUED
        /\ store[id].summary_content # None
        /\ \E payload \in ResultPayloads :
              /\ ValidPayload(payload)
              /\ payload.analysis_id = id
              /\ process_analysis_result(store, payload)[id] # store[id]

\* C8: every COMPLETED row has a summary_content.
C8_CompletedHasSummary ==
    \A id \in Rows : store[id].status = COMPLETED => store[id].summary_content # None

\* C9: a summary_content that is set is never changed or cleared afterwards.
C9_SummaryNeverChanges ==
    [][\A id \in Rows \cap DOMAIN store' :
          store[id].summary_content # None =>
              store'[id].summary_content = store[id].summary_content]_vars

RepoMessageEnqueued(id) ==
    \E i \in 1..Len(repo_q) :
        /\ repo_q[i].func = PROCESS_REPO_TASK
        /\ repo_q[i].args[1].analysis_id = id

\* C11: whenever no analyze_repo_endpoint call is between its create step and
\* its enqueue/rollback step, every row in QUEUED has had a
\* RepoProcessingMessage enqueued for it.
C11_NoOrphanedQueuedRecord ==
    request.pc = "idle" =>
        \A id \in Rows : store[id].status = QUEUED => RepoMessageEnqueued(id)

\* The step is a run of process_analysis_result on the head of the result queue.
ConsumerStep ==
    /\ result_q # <<>>
    /\ result_q' = Tail(result_q)
    /\ \E db_state \in DbStates :
          store' = process_analysis_result_on(db_state, store, Head(result_q).args[1])

\* C12: a step that changes the status, summary_content or error_message of
\* an existing row is a run of the result consumer; a step of the repo worker
\* or of the AI worker leaves the store as it is; and a row disappears only
\* when the producer deletes the row it has just created.
C12_OnlyConsumerWrites ==
    [][/\ \A id \in Rows \cap DOMAIN store' :
              (\/ store'[id].status # store[id].status
               \/ store'[id].summary_content # store[id].summary_content
               \/ store'[id].error_message # store[id].error_message)
                  => ConsumerStep
       /\ (repo_run' # repo_run \/ ai_run' # ai_run \/ ai_q' # ai_q) => store' = store
       /\ \A id \in Rows \ DOMAIN store' :
              request.pc = "enqueue" /\ id = request.analysis_id]_vars

\* C12 witness: the repo worker has reported a failed run for an existing row
\* by a ResultMessage that is still on the result queue, and the row is as
\* the producer created it.
C12_Witness ==
    \E id \in Rows :
        /\ store[id].status = QUEUED
        /\ repo_run.pc = "cleanup"
        /\ repo_run.analysis_id = id
        /\ \E i \in 1..Len(result_q) :
              /\ result_q[i].args[1].analysis_id = id
              /\ result_q[i].args[1].status = "failed"

\* The step is the part of a process_repo_task run from os.makedirs to the
\* finally block, and the clone did not succeed in it.
CloneFailedStep ==
    /\ repo_run.pc = "clone"
    /\ repo_run'.pc = "cleanup"
    /\ repo_run'.outcome # "cloned"

\* The longest error_message of a failed result: the longer of the two fixed
\* prefixes and 500 characters of error text.
MaxErrorMessageLen == INTERNAL_ERROR_PREFIX_LEN + ERROR_TEXT_LIMIT

\* C13: in a run of process_repo_task in which the clone fails, the worker
\* puts no job on the AI queue, and the job its _send_status_update puts on
\* the result queue (when the broker takes it) is a failed ResultMessage for
\* the run's analysis_id whose error_message is present, not empty and not
\* longer than the prefix plus 500 characters; the rest of the run enqueues
\* nothing more.
C13_CloneFailureSendsFailed ==
    [][/\ CloneFailedStep =>
             /\ ai_q' = ai_q
             /\ repo_run'.error_message_len >= 1
             /\ repo_run'.error_message_len <= MaxErrorMessageLen
             /\ repo_run'.outcome = "GitCommandError" =>
                    repo_run'.error_message_len <= CLONE_FAILED_PREFIX_LEN + ERROR_TEXT_LIMIT
             /\ repo_run'.enqueued =>
                    /\ Len(result_q') = Len(result_q) + 1
                    /\ LET payload == result_q'[Len(result_q')].args[1]
                       IN /\ result_q'[Len(result_q')].func = PROCESS_ANALYSIS_RESULT
                          /\ payload.analysis_id = repo_run.analysis_id
                          /\ payload.status = "failed"
                          /\ AnalysisStatus(payload.status) = FAILED
                          /\ payload.error_message # None
       /\ (repo_run.pc = "cleanup" /\ repo_run'.pc = "idle") =>
             (ai_q' = ai_q /\ result_q' = result_q)]_vars

\* C13 witness: a clone failed with an error text longer than 500 characters
\* and the failed result, with the text cut, is on the result queue.
C13_Witness ==
    /\ repo_run.pc = "cleanup"
    /\ repo_run.outcome = "GitCommandError"
    /\ repo_run.enqueued
    /\ repo_run.error_message_len = CLONE_FAILED_PREFIX_LEN + ERROR_TEXT_LIMIT
    /\ result_q # <<>>
    /\ result_q[Len(result_q)].args[1].status = "failed"
    /\ ai_q = <<>>

\* C14: when process_repo_task returns, on whichever path, the temporary
\* directory of the run does not exist.
C14_CloneDirRemoved ==
    [][(repo_run.pc = "cleanup" /\ repo_run'.pc = "idle") =>
           repo_run.temp_clone_dir \notin temp_dirs']_vars

\* The largest content the parser's own limits bound: 150 source files of at
\* most MAX_FILE_SIZE_BYTES characters each.
HandoffCharBudget == MAX_SOURCE_FILES * MAX_FILE_SIZE_BYTES

\* C16: every AI-analysis job the repo worker enqueues carries its content
\* as one text, and the content is not longer than a fixed budget.
C16_HandoffIsBoundedText ==
    \A i \in 1..Len(ai_q) :
        ai_q[i].func = AI_TASK_FUNCTION_PATH =>
            /\ ai_q[i].args[1].extracted_text # None
            /\ ai_q[i].args[1].parsed_repo_content.chars <= HandoffCharBudget

\* The step takes an analyze_text_task job whose analysis_id, parameters and
\* result queue are given and whose extracted_text is empty.
EmptyTextTaskStep ==
    /\ ai_run.pc = "idle"
    /\ ai_q # <<>>
    /\ ai_q' = Tail(ai_q)
    /\ Head(ai_q).func = ANALYZE_TEXT_TASK
    /\ Head(ai_q).args[1].analysis_id # NoId
    /\ Head(ai_q).args[1].analysis_parameters # NoParameters
    /\ Head(ai_q).args[1].result_queue_name # None
    /\ Head(ai_q).args[1].extracted_text = ""

\* The step puts a FAILED ResultMessage for analysis_id on the result queue.
FailedResultEnqueued(analysis_id) ==
    /\ Len(result_q') = Len(result_q) + 1
    /\ result_q'[Len(result_q')].args[1].analysis_id = analysis_id
    /\ result_q'[Len(result_q')].args[1].status = "FAILED"

\* C15: a task that hits an error of the taxonomy gets a FAILED ResultMessage
\* for its analysis_id: the step that takes a task with an empty
\* extracted_text enqueues one, and so does every step in which
\* generate_summary raises (model not initialized, content blocked, no
\* candidate content, API error).
C15_TaxonomyErrorSendsFailed ==
    [][/\ EmptyTextTaskStep => FailedResultEnqueued(Head(ai_q).args[1].analysis_id)
       /\ (ai_run.pc \in {"generate", "call"} /\ ai_run'.pc = "idle") =>
             \/ FailedResultEnqueued(ai_run.analysis_id)
             \/ /\ Len(result_q') = Len(result_q) + 1
                /\ result_q'[Len(result_q')].args[1].status = "COMPLETED"]_vars

\* The fragments of the two lookup tables, and their defaults.
DEFAULT_LENGTH_GUIDANCE == "detailed (several paragraphs)"

DEFAULT_TECHNICAL_GUIDANCE == "for a software developer."

\* C19: for every size and technicality string, generate_summary builds the
\* prompt (the run goes on to the model call) with a fragment for each tier,
\* the default one when the lower-cased value is not in the table; when
\* generate_summary raises before the call, the FAILED result names the model
\* or the text, never the tier.
C19_UnknownTierFallsBack ==
    [][/\ (ai_run.pc = "generate" /\ ai_run'.pc = "call") =>
             LET size == Get(ai_run.analysis_parameters.size, "medium")
                 technicality == Get(ai_run.analysis_parameters.technicality, "technical")
             IN /\ ai_run'.prompt.length_guidance # None
                /\ ai_run'.prompt.technical_guidance # None
                /\ Lower(size) \notin {"small", "medium", "large"} =>
                       ai_run'.prompt.length_guidance = DEFAULT_LENGTH_GUIDANCE
                /\ Lower(technicality) \notin {"non-technical", "technical", "expert"} =>
                       ai_run'.prompt.technical_guidance = DEFAULT_TECHNICAL_GUIDANCE
       /\ (ai_run.pc = "generate" /\ ai_run'.pc = "idle") =>
             /\ FailedResultEnqueued(ai_run.analysis_id)
             /\ result_q'[Len(result_q')].args[1].error_message
                    \in {AI_NOT_INITIALIZED_MESSAGE, AI_NO_TEXT_MESSAGE}]_vars

\* C19 witness: a task with size "huge" and technicality "guru" has reached
\* the model call with the two default fragments in its prompt.
C19_Witness ==
    /\ ai_run.pc = "call"
    /\ ai_run.analysis_parameters.size = "huge"
    /\ ai_run.analysis_parameters.technicality = "guru"
    /\ ai_run.prompt.length_guidance = DEFAULT_LENGTH_GUIDANCE
    /\ ai_run.prompt.technical_guidance = DEFAULT_TECHNICAL_GUIDANCE

\* A payload the consumer rejects: no analysis id, no status, or a status that
\* is not one of the five lifecycle values.
InvalidPayload(payload) ==
    \/ payload.analysis_id = NoId
    \/ payload.status = None
    \/ payload.status \notin AnalysisStatusValues

\* C17: handed a payload without analysis id, without status, or with a status
\* outside the lifecycle values, the consumer returns without raising and
\* leaves every record as it was, whatever state the store is in.
C17_InvalidPayloadIgnored ==
    \A payload \in ResultPayloads : \A db_state \in DbStates :
        InvalidPayload(payload) =>
            /\ process_analysis_result_raises(payload, db_state) = None
            /\ process_analysis_result_on(db_state, store, payload) = store

\* C17 witness: a record the consumer has already completed is named by a
\* payload whose status the consumer does not recognize; the same payload with
\* a lifecycle status would change that record.
C17_Witness ==
    \E id \in Rows :
        /\ store[id].status = COMPLETED
        /\ \E payload \in ResultPayloads :
              /\ payload.analysis_id = id
              /\ payload.status = "FAILED"
              /\ process_analysis_result(store, [payload EXCEPT !.status = FAILED])
                    # store

\* An id the store never hands out.
UnknownId == MaxRecords + 1

\* The valid payloads that name an id no record has: an id not created yet or
\* rolled back, or the id the store never hands out.
MissingRecordPayloads ==
    {payload \in ResultPayloads \cup
                 [analysis_id : {UnknownId}, status : PayloadStatusStrings,
                  summary_content : SummaryValues, error_message : ErrorValues] :
        ValidPayload(payload) /\ payload.analysis_id \notin Rows}

\* C18: a valid payload naming an id no record has creates no record, changes
\* no record and does not raise, the session factory being configured.
C18_MissingRecordIsNoOp ==
    \A payload \in MissingRecordPayloads :
        \A db_state \in DbStates \ {"not_configured"} :
            /\ process_analysis_result_raises(payload, db_state) = None
            /\ process_analysis_result_on(db_state, store, payload) = store

\* C18 witness: the store holds a record the consumer has updated while valid
\* payloads name ids that are not in the store.
C18_Witness ==
    /\ \E id \in Rows : store[id].status # QUEUED
    /\ MissingRecordPayloads # {}

\* The values get_analysis_by_id_for_user may be handed as user_github_id: no
\* owner (None, or the empty string, which the function's test treats alike)
\* and the ids of two users.
OwnerArguments == Callers \cup {""}

\* C20: with an owner id O the lookup returns a record only if the record has
\* that id and its owner is O, so never another user's record nor an anonymous
\* one; with no owner id it returns the record with that id, whoever owns it.
C20_LookupFiltersByOwner ==
    \A analysis_id \in StatusIds : \A O \in OwnerArguments :
        IF O # None /\ O # ""
        THEN get_analysis_by_id_for_user(TRUE, store, analysis_id, O) # NoAnalysis
                 => /\ analysis_id \in Rows
                    /\ store[analysis_id].user_github_id = O
                    /\ get_analysis_by_id_for_user(TRUE, store, analysis_id, O)
                           = AnalysisRow(store, analysis_id)
        ELSE analysis_id \in Rows
                 => get_analysis_by_id_for_user(TRUE, store, analysis_id, O)
                        = AnalysisRow(store, analysis_id)

\* C20 witness: the status endpoint has refused a record that exists to a
\* signed-in caller who does not own it.
C20_Witness ==
    /\ status_response.status_code = 404
    /\ status_response.user_github_id # None
    /\ status_response.analysis_id \in Rows
    /\ store[status_response.analysis_id].user_github_id
           # status_response.user_github_id

\* A URL whose path lacks the two segments owner/repo, or has an empty one.
LacksOwnerRepo(url) ==
    \/ Len(url.path) < 2
    \/ url.path[1] = ""
    \/ url.path[2] \in {"", ".git"}

C22_TokenNeverShown ==
    fetch.token # None =>
        /\ ~fetch.error_message.shows_token
        /\ ~fetch.log_shows_token

\* C23: two process_repo_task calls in progress at the same time, be they two
\* deliveries of one message, never have the same working directory.
C23_DistinctWorkingDirs ==
    (repo_run.pc # "idle" /\ repo_parked.pc # "idle")
        => repo_run.temp_clone_dir # repo_parked.temp_clone_dir

\* A file the walk reaches and no skip rule drops: it lies under no ignored or
\* hidden directory, is neither hidden nor an ignored file, has no ignored
\* extension, is not a binary of unknown extension, is 10 bytes to 1 MiB long
\* and gives text when read.
Included(file) ==
    /\ \A i \in 1..Len(file.dir) :
          LowerName(file.dir[i]) \notin IGNORE_DIRS /\ ~StartsWithDot(file.dir[i])
    /\ LowerName(file.name) \notin IGNORE_FILES
    /\ ~StartsWithDot(file.name)
    /\ Suffix(file.name) \notin IGNORE_EXTENSIONS
    /\ (Suffix(file.name) \in TEXT_EXTENSIONS \cup CODE_EXTENSIONS \/ ~file.has_nul)
    /\ file.size >= 10
    /\ file.size <= 1024 * 1024
    /\ file.readable

\* A file whose name is a canonical important name.
ImportantName(file) == LowerName(file.name) \in important_filenames_map

\* An eligible code file that is not an important file.
EligibleSource(file) ==
    Included(file) /\ ~ImportantName(file) /\ Suffix(file.name) \in CODE_EXTENSIONS

\* The files the walk has dealt with so far, in walk order.
Visited == SubSeq(walk.tree, 1, walk.pos - 1)

InSeq(x, seq) == \E i \in 1..Len(seq) : seq[i] = x

\* C24: at every point of the walk the source list holds the first
\* min(n, 150) of the n eligible non-important code files met so far, in walk
\* order; so it never exceeds 150 entries and a file dropped at the cap is not
\* entered later.
C24_SourceListIsFirst150 ==
    LET eligible == SelectSeq(Visited, EligibleSource)
        source_files == walk.parsed.source_files
    IN /\ Len(source_files) <= 150
       /\ Len(source_files) = IF Len(eligible) < 150 THEN Len(eligible) ELSE 150
       /\ \A i \in 1..Len(source_files) :
             source_files[i] = RelativePath(eligible[i])

\* C24 witness: a walk has ended that met more than 150 eligible code files
\* and an important file.
C24_Witness ==
    /\ walk.pc = "done"
    /\ Len(SelectSeq(walk.tree, EligibleSource)) > 150
    /\ \E i \in 1..Len(walk.tree) : ImportantName(walk.tree[i])

\* C25: a file is in the output only if its extension is not ignored and its
\* size is 10 bytes to 1 MiB; an included file with an important name is under
\* "important" by its relative path, any other included file with a code
\* extension is in the source list as long as the list is not full, and no
\* other file is in the output; the tree of five files gives README.md as
\* important and main.py as source.
C25_FilterClassifies ==
    /\ \A i \in 1..Len(Visited) :
          LET file == Visited[i]
              in_important == InSeq(RelativePath(file), walk.parsed.important)
              in_source == InSeq(RelativePath(file), walk.parsed.source_files)
          IN /\ (in_important \/ in_source)
                    => /\ Suffix(file.name) \notin IGNORE_EXTENSIONS
                       /\ file.size >= 10
                       /\ file.size <= 1024 * 1024
                       /\ Included(file)
             /\ in_important <=> (Included(file) /\ ImportantName(file))
             /\ in_source => EligibleSource(file)
             /\ (EligibleSource(file) /\ Len(walk.parsed.source_files) < 150)
                    => in_source
    /\ (walk.pc = "done" /\ walk.tree = ExampleTree)
          => /\ walk.parsed.important = << RelativePath(ExampleTree[4]) >>
             /\ walk.parsed.source_files = << RelativePath(ExampleTree[5]) >>

\* C25 witness: the walk of the tree of five files has ended.
C25_Witness ==
    /\ walk.pc = "done"
    /\ walk.tree = ExampleTree
    /\ Len(walk.parsed.important) = 1

\* C26: for every existing record r and every valid message m, the update
\* leaves the record with status m.status, with m's summary when the status is
\* COMPLETED and r's summary otherwise, with m's error message when the status
\* is FAILED and none otherwise, and with the time of the update as its
\* last-update timestamp.
C26_UpdateWritesFourColumns ==
    \A payload \in ResultPayloads :
        (ValidPayload(payload) /\ payload.analysis_id \in DOMAIN store) =>
            LET r == store[payload.analysis_id]
                status == AnalysisStatus(payload.status)
                after == process_analysis_result(store, payload)[payload.analysis_id]
            IN /\ after.status = status
               /\ after.summary_content =
                      IF status = COMPLETED THEN payload.summary_content
                                            ELSE r.summary_content
               /\ after.error_message =
                      IF status = FAILED THEN payload.error_message ELSE None
               /\ after.updated_at = now_at_update

\* C26: a record the consumer has updated to COMPLETED with a summary.
C26_Witness ==
    \E id \in DOMAIN store :
        /\ store[id].updated_at = now_at_update
        /\ store[id].timestamp = now_at_create
        /\ store[id].status = COMPLETED
        /\ store[id].summary_content # None

\* C27: every step leaves each record it keeps with its id, owner, repository
\* URL, analysis parameters and creation timestamp, so no update of the
\* consumer changes them; and a step that removes a record is the producer's
\* rollback, after a failed enqueue, of the record its request just created.
C27_UpdateFrame ==
    [][\A id \in DOMAIN store :
          IF id \in DOMAIN store'
          THEN /\ store'[id].user_github_id = store[id].user_github_id
               /\ store'[id].repository_url = store[id].repository_url
               /\ store'[id].parameters_used = store[id].parameters_used
               /\ store'[id].timestamp = store[id].timestamp
          ELSE /\ request.pc = "enqueue"
               /\ request.analysis_id = id
               /\ request'.response = "500 Failed to queue analysis task."]_vars

\* C27: a record of a signed-in owner that the consumer has updated to FAILED.
C27_Witness ==
    \E id \in DOMAIN store :
        /\ store[id].status = FAILED
        /\ store[id].updated_at = now_at_update
        /\ store[id].user_github_id # None
        /\ store[id].repository_url # None

\* C28: every job on the repo queue names process_repo_task and carries the
\* five positional arguments of its signature (analysis_id, repository_url,
\* github_token, analysis_parameters, result_queue_name), and no run of
\* process_repo_task fails on binding its parameters.
C28_RepoJobBindsFiveArguments ==
    /\ \A i \in 1..Len(repo_q) :
          /\ repo_q[i].func = PROCESS_REPO_TASK
          /\ Len(repo_q[i].args) = 5
    /\ \A failed \in failed_jobs :
          ~(failed.func = PROCESS_REPO_TASK /\ failed.error = "TypeError")

\* C29: every job the repo worker puts on the AI queue names the AI worker's
\* task function and carries a payload whose analysis_id, extracted_text,
\* analysis_parameters and result_queue_name pass the AI worker's validation.
C29_AiJobIsAccepted ==
    \A i \in 1..Len(ai_q) :
        /\ ai_q[i].func = ANALYZE_TEXT_TASK
        /\ ai_q[i].args[1].analysis_id # NoId
        /\ Truthy(ai_q[i].args[1].extracted_text)
        /\ ai_q[i].args[1].analysis_parameters # NoParameters
        /\ Truthy(ai_q[i].args[1].result_queue_name)

\* C30: every job a worker puts on the result queue carries a status string
\* that AnalysisStatus(...) accepts, so the consumer does not drop it as
\* invalid.
C30_ResultStatusIsAccepted ==
    \A i \in 1..Len(result_q) :
        /\ result_q[i].args[1].status # None
        /\ AnalysisStatus(result_q[i].args[1].status) # ValueError

\* C31: the error message of the failed result sent for an exception other
\* than a clone failure is one fixed text: it is the message the run would
\* have sent for an exception with any other text.
C31_InternalErrorTextIsFixed ==
    repo_run.outcome \in {"Exception", "OSError"} =>
        \A text_len \in ErrorTextLengths :
            internal_error_message_len(text_len) = repo_run.error_message_len

\* C32: a run of process_repo_task that caught an exception other than a
\* clone failure at its outermost scope ends as a failed job: when it leaves
\* its cleanup, the failed-job registry has an entry for process_repo_task.
C32_InternalErrorIsReraised ==
    [][(/\ repo_run.pc = "cleanup"
        /\ repo_run.outcome \in {"Exception", "OSError"}
        /\ repo_run'.pc = "idle")
       => \E failed \in failed_jobs' : failed.func = PROCESS_REPO_TASK]_vars

\* C33: a step in which a run of analyze_text_task ends by raising an
\* exception outside the taxonomy (the job is entered in the failed-job
\* registry) puts a FAILED result for the run's analysis_id on the result
\* queue.
C33_UnexpectedErrorSendsFailedFirst ==
    [][(/\ ai_run.pc # "idle"
        /\ ai_run'.pc = "idle"
        /\ \E failed \in failed_jobs' \ failed_jobs : failed.func = ANALYZE_TEXT_TASK)
       => /\ Len(result_q') = Len(result_q) + 1
          /\ result_q'[Len(result_q')].func = PROCESS_ANALYSIS_RESULT
          /\ result_q'[Len(result_q')].args[1].analysis_id = ai_run.analysis_id
          /\ result_q'[Len(result_q')].args[1].status = "FAILED"
          /\ result_q'[Len(result_q')].args[1].error_message = AI_UNEXPECTED_MESSAGE]_vars

\* C33: a run has raised an exception outside the taxonomy and its FAILED
\* result is the last job of the result queue.
C33_Witness ==
    /\ \E failed \in failed_jobs :
          failed.func = ANALYZE_TEXT_TASK /\ failed.error = "Exception"
    /\ result_q # <<>>
    /\ result_q[Len(result_q)].args[1].error_message = AI_UNEXPECTED_MESSAGE

\* The payload of the job a step appends to the result queue.
Appended == result_q'[Len(result_q')].args[1]

C35_StoreFailureIsRaised ==
    [][(/\ result_q # <<>>
        /\ result_q' = Tail(result_q)
        /\ ValidPayload(Head(result_q).args[1])
        /\ process_analysis_result(store, Head(result_q).args[1]) # store
        /\ store' = store)
       => \E failed \in failed_jobs' : failed.func = PROCESS_ANALYSIS_RESULT]_vars

\* C36: a run of process_repo_task whose hand-off or failed result the broker
\* did not take does not return normally: when the run ends, either its
\* AI-analysis job or its failed result was enqueued, or the job is in the
\* failed-job registry.
C36_BrokerFailureIsRaised ==
    [][(repo_run.pc = "cleanup" /\ repo_run'.pc = "idle") =>
           \/ repo_run.enqueued
           \/ \E failed \in failed_jobs' : failed.func = PROCESS_REPO_TASK]_vars

\* C37: when a clone_repo call has ended, the directory it made is gone if
\* the call raised, and exists if the call returned it.
C37_FailedCloneLeavesNoDir ==
    fetch.pc = "done" =>
        IF fetch.raised # None
        THEN fetch.temp_dir \notin temp_dirs
        ELSE fetch.temp_dir \in temp_dirs

\* C38: the clone of a process_repo_task run is invoked with the credential
\* the run's message carries, and with none when the message carries none.
C38_CloneUsesCredential ==
    (repo_run.pc = "cleanup" /\ repo_run.outcome \in {"cloned", "GitCommandError"})
        => repo_run.clone_credential = repo_run.github_token

\* The names the claim gives as examples of important files that a skip rule
\* removes.
SkippedImportantNames == {".travis.yml", ".env.example", "yarn.lock", "Cargo.lock"}

\* C39: a file the walk has dealt with whose name begins with '.', whose
\* extension is an ignored one, or that lies under an ignored or hidden
\* directory is neither under "important" nor in the source list, whether or
\* not its name is an important one; so it is for .travis.yml, .env.example,
\* yarn.lock and Cargo.lock.
C39_SkipRulesComeFirst ==
    \A i \in 1..Len(Visited) :
        LET file == Visited[i]
            hidden_or_ignored_dir ==
                \E j \in 1..Len(file.dir) :
                    \/ StartsWithDot(file.dir[j])
                    \/ LowerName(file.dir[j]) \in IGNORE_DIRS
        IN (\/ StartsWithDot(file.name)
            \/ Suffix(file.name) \in IGNORE_EXTENSIONS
            \/ hidden_or_ignored_dir
            \/ file.name \in SkippedImportantNames)
               => /\ ~InSeq(RelativePath(file), walk.parsed.important)
                  /\ ~InSeq(RelativePath(file), walk.parsed.source_files)

\* C39: a walk has ended that met the four important names the skip rules
\* remove and an important name under a hidden and under an ignored directory,
\* and that entered other files.
C39_Witness ==
    /\ walk.pc = "done"
    /\ \A name \in SkippedImportantNames :
          \E i \in 1..Len(walk.tree) : walk.tree[i].name = name
    /\ \E i \in 1..Len(walk.tree) :
          walk.tree[i].dir = <<".github">> /\ ImportantName(walk.tree[i])
    /\ \E i \in 1..Len(walk.tree) :
          walk.tree[i].dir = <<"node_modules", "lib">> /\ ImportantName(walk.tree[i])
    /\ walk.parsed.important # <<>>

\* The answers with which analyze_repo_endpoint rejects a request before it
\* has a record: no queue connection, no database, no record created.
Rejections ==
    {"503 Analysis service temporarily unavailable.",
     "503 Database service unavailable, cannot track analysis.",
     "500 Failed to initiate analysis record."}

\* C40: a step in which analyze_repo_endpoint rejects a request (no queue
\* connection, no database, record creation failed) adds no record to the
\* store and no job to the repo queue; and a step that adds a job to the repo
\* queue adds it with the id of a record that is in the store, in QUEUED as
\* long as no update was applied to it.
C40_RejectionLeavesNothing ==
    [][/\ (request.pc = "idle" /\ request'.pc = "idle" /\ request'.response \in Rejections)
             => (DOMAIN store' = DOMAIN store /\ repo_q' = repo_q)
       /\ Len(repo_q') > Len(repo_q) =>
             LET id == repo_q'[Len(repo_q')].args[1].analysis_id
             IN /\ id \in DOMAIN store
                /\ id = request.analysis_id
                /\ store[id].updated_at = now_at_create => store[id].status = QUEUED]_vars

====
